---- MODULE Spec2Model ----
(***************************************************************************)
(* Model of scripts/crawler.py: OptimizedWaveScraper.run, its batch        *)
(* scheduler process_urls_batch (a ThreadPoolExecutor per batch) and the   *)
(* sink save_results writing the output CSV.                               *)
(*                                                                         *)
(* A row of the output file and a buffered record are both a pair          *)
(* <<url, j>>: the j-th record parsed from the page of that URL.  The CSV  *)
(* header line is the row Header, a row left by an earlier run is OldRow.  *)
(***************************************************************************)
EXTENDS Integers, Sequences, FiniteSets, TLC

\* ---- bounds of the model
MaxUrls == 3
MaxBatchSize == 2
MaxWorkers == 2
MaxData == 1
MaxCalls == 3
MaxPages == 2
MaxCols == 2
MaxRows == 2
MaxFetches == 2
MaxLines == 4
MaxThreads == 3
MaxParts == 3
MaxLongLines == 13
MaxIssueLines == 2

\* ---- constants of the program
AdapterMaxRetries == 2
BsRadius == 3
RegexRadius == 5

VARIABLES
    pc,            \* position of the main thread in run()
    batch_size,    \* self.batch_size
    max_workers,   \* self.max_workers
    urls,          \* urls = df['link'].tolist()
    i,             \* loop variable of run()
    fut,           \* the futures submitted so far, by position in urls
    yielded,       \* the futures as_completed has handed to the loop body
    pending_exc,   \* the exception unwinding through the with-block
    results,       \* self.results
    stats,         \* self.stats
    file_exists,   \* os.path.exists(self.output_file)
    file_rows,     \* the lines of self.output_file
    exit_kind,     \* how run() ended
    save_log,      \* history: one entry per call of save_results
    batch_log,     \* history: the batch_urls handed to process_urls_batch
    batches_done,  \* history: normal returns of process_urls_batch
    flush_opps,    \* history: evaluations of the flush test of line 420
    pauses,        \* history: calls of time.sleep at line 429
    accepted,      \* history: the records run() took into the buffer (line 383)
    lost,          \* history: futures unfinished when a batch timed out
    interrupted_at, \* history: Len(save_log) when KeyboardInterrupt arrived
    existed,       \* history: the output file existed when the run began
    input_file,    \* the table stored at self.input_file
    results_lock,  \* self.results_lock: "free" or the thread holding it
    lock_pc,       \* position of the main thread in a with results_lock block
    fetch,         \* one call of process_single_url / fetch_url_content
    page,          \* html_text given to parse_single_period
    contexts,      \* the contexts parse_single_period iterates over
    window,        \* one context, a sequence of characters
    parsed,        \* what the field parser and the quality gate made of it
    session_local, \* self.session_local: the session attribute of each thread
    session_users  \* history: the threads that sent a request on each session

lockVars == <<results_lock, lock_pc>>
fetchVars == <<fetch>>
extractVars == <<page, contexts>>
parseVars == <<window, parsed>>
sessionVars == <<session_local, session_users>>
auxVars == <<lockVars, fetchVars, extractVars, parseVars, sessionVars>>

vars == <<pc, batch_size, max_workers, existed, urls, i, fut, yielded, pending_exc,
          results, stats, file_exists, file_rows, exit_kind, save_log,
          batch_log, batches_done, flush_opps, pauses, accepted, lost, interrupted_at,
          input_file, auxVars>>

sinkVars == <<results, stats, file_exists, file_rows, save_log>>
schedVars == <<pc, batch_size, max_workers, existed, urls, i, fut, yielded, pending_exc,
               exit_kind, batch_log, batches_done, flush_opps, pauses, accepted, lost,
               interrupted_at, input_file>>

\* ---- helpers
Header == <<0, 0>>
OldRow == <<0, 1>>
Min(a, b) == IF a < b THEN a ELSE b
Prefix(s, k) == SubSeq(s, 1, k)
Range(s) == {s[k] : k \in DOMAIN s}
Last(s) == s[Len(s)]
IsData(row) == row # Header

\* the list parse_page_data returns for a page holding k valid windows
PageData(u, k) == [j \in 1..k |-> <<u, j>>]

\* ---- run(): partition of the URL list (lines 410-413)
BatchSliceShort(list, start, size) ==
    SubSeq(list, start + 1, Min(start + size - 1, Len(list)))

BatchSlice(list, start, size) ==
    SubSeq(list, start + 1, Min(start + size, Len(list)))

NextStart(start, size) == start + size

PauseAlways(start, size, total) == TRUE

\* line 428: `if i + self.batch_size < total_urls`, the test before the pause
PauseAfter(start, size, total) == start + size < total

TotalBatches(n, size) == (n + size - 1) \div size

RECURSIVE BatchesFrom(_, _, _)
BatchesFrom(list, start, size) ==
    IF start < Len(list)
    THEN <<BatchSlice(list, start, size)>>
             \o BatchesFrom(list, NextStart(start, size), size)
    ELSE <<>>

\* ---- save_results (lines 347-366)
SaveGuardMissing(buf) == TRUE

SaveGuard(buf) == buf # <<>>

AppendModeNever(incremental, exists) == FALSE

AppendMode(incremental, exists) == incremental /\ exists

CsvContentHeaderAlways(incremental, exists, buf) == <<Header>> \o buf

CsvContent(incremental, exists, buf) ==
    IF AppendMode(incremental, exists) THEN buf ELSE <<Header>> \o buf

\* What to_csv can do: succeed, fail before the file is opened, or fail after
\* the file was opened and k lines of the content reached it.
IOOutcomes(content) ==
    {[ok |-> TRUE, opened |-> TRUE, k |-> Len(content)]}
        \cup {[ok |-> FALSE, opened |-> FALSE, k |-> 0]}
        \cup {[ok |-> FALSE, opened |-> TRUE, k |-> n] : n \in 0..(Len(content) - 1)}

RowsAfterWrite(incremental, exists, rows, buf, io) ==
    LET content == CsvContent(incremental, exists, buf)
    IN  IF ~io.opened THEN rows
        ELSE IF AppendMode(incremental, exists)
             THEN rows \o Prefix(content, io.k)
             ELSE Prefix(content, io.k)

ExistsAfterWrite(exists, io) == exists \/ io.opened

BufferClearedOnFailure(incremental, ok, buf) ==
    IF incremental THEN <<>> ELSE buf

BufferAfterSave(incremental, ok, buf) ==
    IF incremental /\ ok THEN <<>> ELSE buf

WrittenRecords(incremental, exists, buf, io) ==
    IF ~io.opened THEN <<>>
    ELSE SelectSeq(Prefix(CsvContent(incremental, exists, buf), io.k), IsData)

SaveResults(incremental) ==
    IF SaveGuard(results)
    THEN \E io \in IOOutcomes(CsvContent(incremental, file_exists, results)) :
            /\ file_rows' = RowsAfterWrite(incremental, file_exists, file_rows,
                                           results, io)
            /\ file_exists' = ExistsAfterWrite(file_exists, io)
            /\ results' = BufferAfterSave(incremental, io.ok, results)
            /\ save_log' = Append(save_log,
                   [inc |-> incremental, offered |-> results, ok |-> io.ok,
                    written |-> WrittenRecords(incremental, file_exists,
                                               results, io)])
    ELSE /\ UNCHANGED <<file_rows, file_exists, results>>
         /\ save_log' = Append(save_log,
                [inc |-> incremental, offered |-> <<>>, ok |-> TRUE,
                 written |-> <<>>])

\* ---- process_urls_batch (lines 368-394)
CurrentBatch == Len(batch_log)
TasksOf(b) == {u \in DOMAIN fut : fut[u].batch = b}
Running(b) == {u \in TasksOf(b) : fut[u].st = "running"}

\* as_completed hands out a future once it has finished
CanYield(f) == f.st = "finished"

\* a future whose result the loop body has read: nothing reads it again
Consumed(f) == [batch |-> f.batch, st |-> "finished", success |-> FALSE, n |-> 0]

\* the as_completed loop ends when every future of the batch was handed out
AllYielded(tasks, done) == tasks \subseteq done

ExecutorNotJoined(tasks) == TRUE

\* ThreadPoolExecutor.__exit__ is shutdown(wait=True): every task has ended
ExecutorJoined(tasks) == \A u \in tasks : fut[u].st = "finished"

ShouldFlushThreshold(buf) == Len(buf) >= 2

\* the flush test of run(), line 420
ShouldFlush(buf) == buf # <<>>

\* ---- the input table (run(), lines 400-401)
\* A table is [readable, names, nrows, bad]: whether pd.read_csv can read the
\* file, its column names in file order, its number of rows, and the rows
\* whose cells are no fully-qualified URL (empty, not a string, no scheme).
\* The cell of column c and row r is the entry CellId(c, r), negated when the
\* row is in bad: a well-formed URL is a positive number.
ColumnNames == {"link", "url", "links", "urls", "other"}

CellStride == 10

CellId(c, r) == (c - 1) * CellStride + r

Cell(inp, c, r) == IF r \in inp.bad THEN 0 - CellId(c, r) ELSE CellId(c, r)

Column(inp, c) == [r \in 1..inp.nrows |-> Cell(inp, c, r)]

WellFormed(entry) == entry > 0

IndexOf(names, name) == CHOOSE c \in DOMAIN names : names[c] = name

\* line 400: pd.read_csv raises on a missing or unreadable file
ReadCsvOk(inp) == inp.readable

\* line 401: df['link'] raises KeyError unless the table has that column
HasLinkColumn(inp) == "link" \in Range(inp.names)

\* line 401: urls = df['link'].tolist(), every cell of the column as it is
LinkList(inp) == Column(inp, IndexOf(inp.names, "link"))

UnreadableInput == [readable |-> FALSE, names |-> <<>>, nrows |-> 0, bad |-> {}]

\* a table as preprocess_links.py writes it: one column 'link' of URLs
LinkTable(n) == [readable |-> TRUE, names |-> <<"link">>, nrows |-> n, bad |-> {}]

DistinctSeqs(S, n) ==
    {q \in UNION {[1..m -> S] : m \in 0..n} :
        \A a, b \in DOMAIN q : a # b => q[a] # q[b]}

\* every table of at most MaxCols columns and MaxRows rows
InputTables ==
    {UnreadableInput} \cup
    UNION {{[readable |-> TRUE, names |-> q, nrows |-> n, bad |-> B] :
                q \in DistinctSeqs(ColumnNames, MaxCols), B \in SUBSET (1..n)} :
            n \in 0..MaxRows}

RunCatchesNothing(exc) == FALSE

\* line 440: except Exception; KeyboardInterrupt is a BaseException only
RunCatches(exc) == exc \in {"load_error", "timeout"}

StatsAfterReset(st, success) ==
    IF success
    THEN [st EXCEPT !.processed = @ + 1, !.success = @ + 1]
    ELSE [processed |-> st.processed + 1, success |-> 0,
          failed |-> st.failed + 1]

StatsAfterFailureUncounted(st, success) ==
    IF success
    THEN [st EXCEPT !.processed = @ + 1, !.success = @ + 1]
    ELSE [st EXCEPT !.failed = @ + 1]

\* lines 379-385: the counters after one collected result
StatsAfter(st, success) ==
    IF success
    THEN [st EXCEPT !.processed = @ + 1, !.success = @ + 1]
    ELSE [st EXCEPT !.processed = @ + 1, !.failed = @ + 1]

\* ---- one call of process_single_url (lines 336-345)
\* pc is the position in the call, attempts the requests sent for it, cause
\* what went wrong (if anything), big whether the body read is over 5 MB,
\* enc how the encoding detect_encoding named suits the body, ret what
\* fetch_url_content returned, task and n the (success, data) pair
\* process_single_url returned.
FetchIdle ==
    [pc |-> "idle", attempts |-> 0, cause |-> "none", big |-> FALSE,
     enc |-> "none", ret |-> "pending", task |-> "pending", n |-> 0]

\* the encoding named by chardet (lines 104-111): one whose codec decodes
\* the body, one whose codec rejects it, or a name Python has no codec for
DetectedEncodings == {"fits", "misfit", "unknown"}

\* lines 124-138: bytes.decode raises UnicodeDecodeError for bytes the codec
\* rejects, which line 126 catches and answers with the fallbacks utf-8,
\* gbk, gb2312, latin1 (the last accepts any bytes); for an unknown name it
\* raises LookupError, which line 126 does not catch
DecodeRaises(enc) == enc = "unknown"

FetchCall == [FetchIdle EXCEPT !.pc = "request"]

\* line 97: HTTPAdapter(max_retries=2) is urllib3 Retry(total=2): after a
\* failed attempt the request is sent again while retries are left
RetryAgain(attempts) == attempts <= AdapterMaxRetries

FetchCatchesNetworkOnly(cause) == cause \in {"network", "status"}

\* line 142: except Exception
FetchCatches(cause) == TRUE

TruthyUnlessNone(ret) == ret # "none"

\* line 339: if html_text
Truthy(ret) == ret = "text"

\* ---- parse_single_period (lines 251-264)
\* A page is its raw lines, each of a kind: "mark" a visible line naming the
\* target period once, "twice" a visible line naming it twice, "text" another
\* visible line, "blank" a line with no visible text, "hidden" a line naming
\* the target period inside a script or style element.  bs_fails tells
\* whether BeautifulSoup raises on the page.
LineKinds == {"mark", "twice", "text", "blank", "hidden"}

\* the kinds of line in which the strategies find the marker
BsMarked == {"mark", "twice"}
RegexMarked == {"mark", "twice", "hidden"}

NoPage == [pc |-> "none", lines |-> <<>>, bs_fails |-> FALSE]

Max(a, b) == IF a > b THEN a ELSE b

\* a window is the raw lines it is made of and the strategy that cut it
Window(by, idx) == [by |-> by, lines |-> idx]

\* lines 153-160: the lines get_text keeps once script and style are removed
\* and blank lines are dropped, as raw line numbers
VisibleLines(lines) ==
    SelectSeq([k \in 1..Len(lines) |-> k],
              LAMBDA k : lines[k] \in {"mark", "twice", "text"})

HitsFirstOnly(idx, lines, kinds) ==
    LET all == SelectSeq([p \in 1..Len(idx) |-> p],
                         LAMBDA p : lines[idx[p]] \in kinds)
    IN  IF all = <<>> THEN <<>> ELSE <<all[1]>>

\* lines 164-165 and 183-184: the positions in idx of the lines in which the
\* marker is found: every such line, each once
HitsAmong(idx, lines, kinds) ==
    SelectSeq([p \in 1..Len(idx) |-> p], LAMBDA p : lines[idx[p]] \in kinds)

BsContextsOneMoreBehind(pg) ==
    IF pg.bs_fails
    THEN <<>>
    ELSE LET vis == VisibleLines(pg.lines)
             hits == HitsAmong(vis, pg.lines, BsMarked)
         IN  [h \in 1..Len(hits) |->
                 Window("bs", SubSeq(vis, Max(1, hits[h] - BsRadius),
                                     Min(Len(vis), hits[h] + BsRadius + 1)))]

\* lines 146-176: extract_data_with_beautifulsoup
BsContexts(pg) ==
    IF pg.bs_fails
    THEN <<>>
    ELSE LET vis == VisibleLines(pg.lines)
             hits == HitsAmong(vis, pg.lines, BsMarked)
         IN  [h \in 1..Len(hits) |->
                 Window("bs", SubSeq(vis, Max(1, hits[h] - BsRadius),
                                     Min(Len(vis), hits[h] + BsRadius)))]

\* lines 178-191: extract_period_context on the raw text
RegexContexts(pg) ==
    LET raw == [k \in 1..Len(pg.lines) |-> k]
        hits == HitsAmong(raw, pg.lines, RegexMarked)
    IN  [h \in 1..Len(hits) |->
            Window("regex", SubSeq(raw, Max(1, hits[h] - RegexRadius),
                                   Min(Len(raw), hits[h] + RegexRadius)))]

SelectContextsMerged(bs, rx) == bs \o rx

\* line 262: bs_contexts if bs_contexts else (regex_contexts or [])
SelectContexts(bs, rx) == IF bs # <<>> THEN bs ELSE rx

\* every page of at most MaxLines lines
Pages ==
    {[pc |-> "fetched", lines |-> l, bs_fails |-> f] :
        l \in UNION {[1..m -> LineKinds] : m \in 0..MaxLines},
        f \in BOOLEAN}

\* no window is being parsed
NoParse == [pc |-> "none"]

ParseIdle ==
    /\ window = <<>>
    /\ parsed = NoParse

\* no thread has asked for a session yet
SessionIdle ==
    /\ session_local = <<>>
    /\ session_users = <<>>

\* ---- get_session (lines 80-102)
\* session_local[t] is the session attribute thread t sees in
\* self.session_local, 0 when it sees none; session_users[s] tells which
\* threads have sent requests on session s, and how many.
Threads == 1..MaxThreads

SessionAttrShared(local, t) ==
    IF \E u \in DOMAIN local : local[u] # 0
    THEN local[CHOOSE u \in DOMAIN local : local[u] # 0]
    ELSE 0

\* lines 82 and 102: self.session_local is a threading.local, so the
\* attribute a thread reads is the one that thread has set
SessionAttr(local, t) == local[t]

(***************************************************************************)
(* Text.  A window is a sequence of characters, each a one-character       *)
(* string, and the functions below compute on it what the regular          *)
(* expressions and string methods of the field parser and the quality      *)
(* gate compute (lines 43-78 and 193-323).  Positions count from 1.  A     *)
(* character outside ASCII is written as its code point, "U+53CC" for 双.  *)
(***************************************************************************)

\* the characters of the model's texts that \s and str.strip() take as
\* whitespace
Whitespace == {" ", "\n", "\t"}

Newline == "\n"

SetMin(S) == CHOOSE x \in S : \A y \in S : x <= y

SetMax(S) == CHOOSE x \in S : \A y \in S : x >= y

\* word occurs in text at position k
MatchesAt(text, k, word) ==
    /\ k >= 1
    /\ k + Len(word) - 1 <= Len(text)
    /\ SubSeq(text, k, k + Len(word) - 1) = word

\* Python's `word in text`
Contains(text, word) == \E k \in 1..Len(text) : MatchesAt(text, k, word)

\* no line break in text[from..to]
SameLine(text, from, to) == \A k \in from..to : text[k] # Newline

\* the last position of the line that position s lies in (s - 1 when
\* position s holds the line break)
LineEnd(text, s) ==
    LET breaks == {j \in s..Len(text) : text[j] = Newline}
    IN  IF breaks = {} THEN Len(text) ELSE SetMin(breaks) - 1

UpperLetters ==
    <<"A", "B", "C", "D", "E", "F", "G", "H", "I", "J", "K", "L", "M",
      "N", "O", "P", "Q", "R", "S", "T", "U", "V", "W", "X", "Y", "Z">>

LowerLetters ==
    <<"a", "b", "c", "d", "e", "f", "g", "h", "i", "j", "k", "l", "m",
      "n", "o", "p", "q", "r", "s", "t", "u", "v", "w", "x", "y", "z">>

\* str.lower() (line 297)
Lower(text) ==
    [k \in DOMAIN text |->
        IF \E n \in DOMAIN UpperLetters : UpperLetters[n] = text[k]
        THEN LowerLetters[CHOOSE n \in DOMAIN UpperLetters :
                              UpperLetters[n] = text[k]]
        ELSE text[k]]

\* str.strip() (lines 200, 245, 303)
Strip(text) ==
    LET inked == {k \in DOMAIN text : text[k] \notin Whitespace}
    IN  IF inked = {} THEN <<>>
        ELSE SubSeq(text, SetMin(inked), SetMax(inked))

\* re.sub(r'<[^>]*>', '', text) (lines 200 and 245): each '<' with a later
\* '>' is removed together with everything up to the first such '>'
RECURSIVE StripTags(_)
StripTags(text) ==
    LET opens == {k \in DOMAIN text : text[k] = "<"}
    IN  IF opens = {} THEN text
        ELSE LET p == SetMin(opens)
                 closes == {k \in DOMAIN text : k > p /\ text[k] = ">"}
             IN  IF closes = {} THEN text
                 ELSE SubSeq(text, 1, p - 1)
                        \o StripTags(SubSeq(text, SetMin(closes) + 1,
                                            Len(text)))

\* lines 200 and 245
Clean(match) == Strip(StripTags(match))

\* ', '.join(list) (lines 271-273)
RECURSIVE Join(_)
Join(list) ==
    IF list = <<>> THEN <<>>
    ELSE IF Len(list) = 1 THEN list[1]
    ELSE list[1] \o <<",", " ">> \o Join(Tail(list))

\* list(a_set): the elements once each, in an order the program does not
\* choose
Orderings(S) ==
    {f \in [1..Cardinality(S) -> S] :
        \A a, b \in 1..Cardinality(S) : a # b => f[a] # f[b]}

\* ---- _init_patterns (lines 43-78)
\* lines 49-54, in the order of the alternation
KeywordLexicon ==
    <<<<"U+4E24", "U+6CE2", "U+4E2D", "U+7279">>,  \* 两波中特
      <<"U+53CC", "U+6CE2", "U+4E2D", "U+7279">>,  \* 双波中特
      <<"U+7CBE", "U+51C6", "U+53CC", "U+6CE2">>,  \* 精准双波
      <<"U+5FC5", "U+4E2D", "U+53CC", "U+6CE2">>,  \* 必中双波
      <<"U+53CC", "U+6CE2">>,  \* 双波
      <<"U+4E8C", "U+6CE2">>,  \* 二波
      <<"U+4E24", "U+6CE2", "U+5FC5", "U+4E2D">>,  \* 两波必中
      <<"U+53CC", "U+6CE2", "U+63A8", "U+8350">>,  \* 双波推荐
      <<"U+4E24", "U+6CE2", "U+63A8", "U+8350">>,  \* 两波推荐
      <<"U+53CC", "U+6CE2", "U+7CBE", "U+9009">>,  \* 双波精选
      <<"U+4E24", "U+6CE2", "U+6599">>,  \* 两波料
      <<"U+53CC", "U+6CE2", "U+6599">>,  \* 双波料
      <<"U+4E24", "U+6CE2", "U+7206", "U+6599">>,  \* 两波爆料
      <<"U+53CC", "U+6CE2", "U+7206", "U+6599">>,  \* 双波爆料
      <<"U+4E24", "U+6CE2", "U+5185", "U+5E55">>,  \* 两波内幕
      <<"U+53CC", "U+6CE2", "U+5185", "U+5E55">>>>  \* 双波内幕

\* the alternation (?:...) at position k: the first entry of the lexicon
\* that occurs there, 0 when none does
KeywordAt(text, k) ==
    LET hits == {n \in DOMAIN KeywordLexicon :
                    MatchesAt(text, k, KeywordLexicon[n])}
    IN  IF hits = {} THEN 0 ELSE SetMin(hits)

\* a lexicon entry lies within text[from..to]
KeywordWithin(text, from, to) ==
    \E k \in from..to, n \in DOMAIN KeywordLexicon :
        /\ MatchesAt(text, k, KeywordLexicon[n])
        /\ k + Len(KeywordLexicon[n]) - 1 <= to

\* line 58, findall from position s: ([^\n]*?(?:KW)[^\n]*?) takes the text
\* from s up to the end of the nearest lexicon entry of the same line, and
\* the search goes on behind it; where the rest of the line holds no entry
\* the search fails at each of its positions, and goes on in the next line
RECURSIVE LinePatternFrom(_, _)
LinePatternFrom(text, s) ==
    IF s > Len(text) THEN {}
    ELSE LET starts == {p \in s..Len(text) :
                           /\ KeywordAt(text, p) # 0
                           /\ SameLine(text, s, p - 1)}
         IN  IF starts = {}
             THEN LinePatternFrom(text, LineEnd(text, s) + 2)
             ELSE LET p == SetMin(starts)
                      e == p + Len(KeywordLexicon[KeywordAt(text, p)]) - 1
                  IN  {SubSeq(text, s, e)} \cup LinePatternFrom(text, e + 1)

\* the first position after k holding character c, 0 when there is none
NextChar(text, k, c) ==
    LET at == {j \in DOMAIN text : j > k /\ text[j] = c}
    IN  IF at = {} THEN 0 ELSE SetMin(at)

\* line 59, findall from position s: <[^>]*>([^<]*?(?:KW)[^<]*?)< takes the
\* text between the '>' closing a tag and the next '<', when a lexicon
\* entry lies in it, and the search goes on behind that '<'
RECURSIVE TagPatternFrom(_, _)
TagPatternFrom(text, s) ==
    IF s > Len(text) THEN {}
    ELSE LET b == IF text[s] = "<" THEN NextChar(text, s, ">") ELSE 0
             c == IF b = 0 THEN 0 ELSE NextChar(text, b, "<")
         IN  IF c # 0 /\ KeywordWithin(text, b + 1, c - 1)
             THEN {SubSeq(text, b + 1, c - 1)}
                    \cup TagPatternFrom(text, c + 1)
             ELSE TagPatternFrom(text, s + 1)

\* the last position of the run of non-whitespace that starts at g
\* (g - 1 when text[g] is whitespace or g is behind the text)
RunEnd(text, g) ==
    LET stops == {j \in g..Len(text) : text[j] \in Whitespace}
    IN  IF stops = {} THEN Len(text) ELSE SetMin(stops) - 1

\* line 60, findall from position s: (?:^|\s)([^\s]*?(?:KW)[^\s]*?)(?:\s|$)
\* takes a whole run of non-whitespace in which a lexicon entry lies; the
\* run starts the text or follows a whitespace character the pattern
\* consumes, as it consumes the whitespace character behind the run
RECURSIVE TokenPatternFrom(_, _)
TokenPatternFrom(text, s) ==
    IF s > Len(text) THEN {}
    ELSE LET atStart == s = 1
                          /\ KeywordWithin(text, 1, RunEnd(text, 1))
             g == IF atStart THEN 1
                  ELSE IF text[s] \in Whitespace THEN s + 1 ELSE 0
             h == IF g = 0 THEN 0 ELSE RunEnd(text, g)
         IN  IF g # 0 /\ KeywordWithin(text, g, h)
             THEN {SubSeq(text, g, h)}
                    \cup TokenPatternFrom(text, Max(h + 1, s) + 1)
             ELSE TokenPatternFrom(text, s + 1)

\* line 201: `clean_keyword and len(clean_keyword) > 2`
KeywordMinLen == 2

KeepKeyword(keyword) == keyword # <<>> /\ Len(keyword) > KeywordMinLen

ExtractKeywordsLinePatternOnly(context) ==
    {keyword \in {Clean(match) : match \in LinePatternFrom(context, 1)} :
        KeepKeyword(keyword)}

\* ---- extract_keywords (lines 193-204), as the set it builds
ExtractKeywords(context) ==
    {keyword \in {Clean(match) :
                    match \in LinePatternFrom(context, 1)
                                \cup TagPatternFrom(context, 1)
                                \cup TokenPatternFrom(context, 1)} :
        KeepKeyword(keyword)}

\* ---- extract_colors (lines 206-236)
\* 红, 绿, 蓝
ColorChars == {"U+7EA2", "U+7EFF", "U+84DD"}

ColorMapBare(char) == <<char>>

\* line 227: color_map
ColorMap(char) == <<char, "U+6CE2">>

\* line 65, ([红绿蓝]波): every colour character followed by 波
FullColorMatches(text) ==
    {SubSeq(text, k, k + 1) :
        k \in {j \in 1..(Len(text) - 1) :
                  text[j] \in ColorChars /\ text[j + 1] = "U+6CE2"}}

\* line 66, (红|绿|蓝)(?=波): the colour character alone
BareColorMatches(text) ==
    {<<text[k]>> :
        k \in {j \in 1..(Len(text) - 1) :
                  text[j] \in ColorChars /\ text[j + 1] = "U+6CE2"}}

\* 推荐, 精选, 必中
ColorCues ==
    {<<"U+63A8", "U+8350">>, <<"U+7CBE", "U+9009">>, <<"U+5FC5", "U+4E2D">>}

\* line 67, findall from position s: (?:推荐|精选|必中).*?([红绿蓝]波) takes
\* the nearest full colour name behind a cue on the same line
RECURSIVE CuedColorMatchesFrom(_, _)
CuedColorMatchesFrom(text, s) ==
    IF s > Len(text) THEN {}
    ELSE LET cued == \E cue \in ColorCues : MatchesAt(text, s, cue)
             names == {p \in (s + 2)..(Len(text) - 1) :
                          /\ text[p] \in ColorChars
                          /\ text[p + 1] = "U+6CE2"
                          /\ SameLine(text, s + 2, p - 1)}
         IN  IF cued /\ names # {}
             THEN {SubSeq(text, SetMin(names), SetMin(names) + 1)}
                    \cup CuedColorMatchesFrom(text, SetMin(names) + 2)
             ELSE CuedColorMatchesFrom(text, s + 1)

\* lines 213-217: a match that does not end in 波 (U+6CE2) gets it appended
WithSuffix(match) ==
    IF match # <<>> /\ match[Len(match)] = "U+6CE2" THEN match
    ELSE match \o <<"U+6CE2">>

\* line 221: the characters removed before the colour characters are
\* sought, ♠【】[]()（）<>《》🐬波
Decoration ==
    {"U+2660", "U+3010", "U+3011", "[", "]", "(", ")", "U+FF08", "U+FF09",
     "<", ">", "U+300A", "U+300B", "U+1F42C", "U+6CE2"}

CleanedText(text) == SelectSeq(text, LAMBDA c : c \notin Decoration)

\* lines 224-234: each colour character left in the cleaned text, mapped to
\* its full name
CharColors(text) ==
    {ColorMap(char) : char \in Range(CleanedText(text)) \cap ColorChars}

\* the set `colors` before line 236
FoundColors(context) ==
    {WithSuffix(match) :
        match \in FullColorMatches(context)
                    \cup BareColorMatches(context)
                    \cup CuedColorMatchesFrom(context, 1)}
      \cup CharColors(context)

\* line 236: list(colors)[:3]
ColorCap == 3

\* the lists line 236 can return: the first ColorCap elements of the set
\* taken in some order
ExtractColors(context) ==
    {SubSeq(list, 1, Min(ColorCap, Len(list))) :
        list \in Orderings(FoundColors(context))}

\* ---- extract_results (lines 238-249)
\* 中, 错, 准
HitChars == {"U+4E2D", "U+9519", "U+51C6"}

\* the full-width and the ASCII colon
Colons == {"U+FF1A", ":"}

\* the first hit character of the line at or behind position g, 0 if none
NextHit(text, g) ==
    LET hits == {h \in g..Len(text) :
                    text[h] \in HitChars /\ SameLine(text, g, h - 1)}
    IN  IF hits = {} THEN 0 ELSE SetMin(hits)

\* lines 72-73, findall from position s: lead[：:]?([^\n]*?[中错准]) takes
\* the text behind the lead and an optional colon, up to the first hit
\* character of the line
RECURSIVE LeadPatternFrom(_, _, _)
LeadPatternFrom(text, lead, s) ==
    IF s > Len(text) THEN {}
    ELSE LET a == s + Len(lead)
             g == IF a <= Len(text) /\ text[a] \in Colons
                  THEN a + 1 ELSE a
             h == IF MatchesAt(text, s, lead) THEN NextHit(text, g) ELSE 0
         IN  IF h # 0
             THEN {SubSeq(text, g, h)} \cup LeadPatternFrom(text, lead, h + 1)
             ELSE LeadPatternFrom(text, lead, s + 1)

\* line 74, findall from position s: ([^\n]*?[中错准][^\n]*) takes the rest
\* of a line that holds a hit character; behind a match, and where the
\* rest of the line holds none, the search goes on in the next line
RECURSIVE HitLinesFrom(_, _)
HitLinesFrom(text, s) ==
    IF s > Len(text) THEN {}
    ELSE IF NextHit(text, s) # 0
         THEN {SubSeq(text, s, LineEnd(text, s))}
                \cup HitLinesFrom(text, LineEnd(text, s) + 2)
         ELSE HitLinesFrom(text, LineEnd(text, s) + 2)

\* line 246: `clean_result and len(clean_result) <= 10`
ResultMaxLen == 10

KeepAnyResult(result) == result # <<>>

KeepResult(result) == result # <<>> /\ Len(result) <= ResultMaxLen

\* extract_results, as the set it builds
ExtractResults(context) ==
    {result \in {Clean(match) :
                    match \in LeadPatternFrom(context, <<"U+5F00">>, 1)
                                \cup LeadPatternFrom(context,

    <<"U+7ED3", "U+679C">>, 1)
                                \cup HitLinesFrom(context, 1)} :
        KeepResult(result)}

\* ---- has_excessive_repetition (lines 312-323)
\* line 314: `if len(text) < 10: return False`
RepetitionMinLen == 10

\* line 320: text[i:i+6] == char * 6
RepetitionRun == 6

\* line 320: six equal characters start at position k, and they are not
\* spaces
RunAt(text, k) ==
    /\ text[k] # " "
    /\ k + RepetitionRun - 1 <= Len(text)
    /\ \A j \in k..(k + RepetitionRun - 1) : text[j] = text[k]

HasRepetitionSpacesToo(text) ==
    /\ ~(Len(text) < RepetitionMinLen)
    /\ \E k \in 1..(Len(text) - RepetitionRun + 1) :
          \A j \in k..(k + RepetitionRun - 1) : text[j] = text[k]

HasExcessiveRepetition(text) ==
    /\ ~(Len(text) < RepetitionMinLen)
    /\ \E k \in 1..(Len(text) - RepetitionRun + 1) : RunAt(text, k)

\* ---- is_valid_content (lines 281-310)
\* lines 288-295
AdKeywords ==
    <<<<"U+5E7F", "U+544A">>,  \* 广告
      <<"U+63A8", "U+5E7F">>,  \* 推广
      <<"U+8054", "U+7CFB">>,  \* 联系
      <<"U+5FAE", "U+4FE1">>,  \* 微信
      <<"Q", "Q">>,  \* QQ
      <<"U+7535", "U+8BDD">>,  \* 电话
      <<"U+624B", "U+673A">>,  \* 手机
      <<"U+7F51", "U+5740">>,  \* 网址
      <<"h", "t", "t", "p">>,  \* http
      <<"U+52A0", "U+7FA4">>,  \* 加群
      <<"U+5BA2", "U+670D">>,  \* 客服
      <<"U+54A8", "U+8BE2">>,  \* 咨询
      <<"U+4EE3", "U+7406">>,  \* 代理
      <<"U+62DB", "U+5546">>,  \* 招商
      <<"U+5408", "U+4F5C">>,  \* 合作
      <<"U+6295", "U+8D44">>,  \* 投资
      <<"U+7406", "U+8D22">>,  \* 理财
      <<"U+8D37", "U+6B3E">>,  \* 贷款
      <<"U+501F", "U+94B1">>,  \* 借钱
      <<"U+8D5A", "U+94B1">>,  \* 赚钱
      <<"U+517C", "U+804C">>,  \* 兼职
      <<"U+62DB", "U+8058">>,  \* 招聘
      <<"U+5DE5", "U+4F5C">>,  \* 工作
      <<"U+804C", "U+4F4D">>,  \* 职位
      <<"U+514D", "U+8D39">>,  \* 免费
      <<"U+4F18", "U+60E0">>,  \* 优惠
      <<"U+6298", "U+6263">>,  \* 折扣
      <<"U+7279", "U+4EF7">>,  \* 特价
      <<"U+4FC3", "U+9500">>,  \* 促销
      <<"U+6D3B", "U+52A8">>,  \* 活动
      <<"U+793C", "U+54C1">>,  \* 礼品
      <<"U+6CE8", "U+518C">>,  \* 注册
      <<"U+5F00", "U+6237">>,  \* 开户
      <<"U+5145", "U+503C">>,  \* 充值
      <<"U+63D0", "U+73B0">>,  \* 提现
      <<"U+8F6C", "U+8D26">>,  \* 转账
      <<"U+652F", "U+4ED8">>,  \* 支付
      <<"U+94F6", "U+884C">>,  \* 银行
      <<"U+70B9", "U+51FB">>,  \* 点击
      <<"U+4E0B", "U+8F7D">>,  \* 下载
      <<"U+5B89", "U+88C5">>,  \* 安装
      <<"U+626B", "U+7801">>,  \* 扫码
      <<"U+5173", "U+6CE8">>,  \* 关注
      <<"U+8BA2", "U+9605">>>>  \* 订阅

\* lines 297-300: an entry of the list occurs in the lower-cased context
HasAdWord(context) ==
    LET context_lower == Lower(context)
    IN  \E n \in DOMAIN AdKeywords : Contains(context_lower, AdKeywords[n])

\* line 303: the minimum length of a window
MinContextLen == 20

TooShortUntrimmed(context) == Len(context) < MinContextLen

\* line 303: len(context.strip()) < 20
TooShort(context) == Len(Strip(context)) < MinContextLen

IsValidContentAnyKeywords(context, keywords, colors) ==
    IF HasAdWord(context) THEN FALSE
    ELSE IF TooShort(context) THEN FALSE
    ELSE IF HasExcessiveRepetition(context) THEN FALSE
    ELSE TRUE

IsValidContent(context, keywords, colors) ==
    IF keywords = <<>> THEN FALSE
    ELSE IF HasAdWord(context) THEN FALSE
    ELSE IF TooShort(context) THEN FALSE
    ELSE IF HasExcessiveRepetition(context) THEN FALSE
    ELSE TRUE

\* ---- the texts the field parser and the quality gate are run on
\* a text is put together from at most MaxParts pieces
RECURSIVE Glue(_)
Glue(parts) == IF parts = <<>> THEN <<>> ELSE Head(parts) \o Glue(Tail(parts))

TextsOf(pieces) ==
    {Glue(parts) : parts \in UNION {[1..n -> pieces] : n \in 0..MaxParts}}

\* fifteen characters that hold the keyword 双波推荐:
\* 双波推荐本期资料请看下面内容呀
Lead15 ==
    <<"U+53CC", "U+6CE2", "U+63A8", "U+8350", "U+672C", "U+671F", "U+8D44",
      "U+6599", "U+8BF7", "U+770B", "U+4E0B", "U+9762",
      "U+5185", "U+5BB9", "U+5440">>

\* ten characters without a keyword, with a colour and a result:
\* 今日红波开：准好运来
Pad10 == <<"U+4ECA", "U+65E5", "U+7EA2", "U+6CE2", "U+5F00", "U+FF1A",
           "U+51C6", "U+597D", "U+8FD0", "U+6765">>

\* five characters without keyword, colour or result: 一二三四五
Pad5 == <<"U+4E00", "U+4E8C", "U+4E09", "U+56DB", "U+4E94">>

\* 哈哈哈哈哈
Run5 == <<"U+54C8", "U+54C8", "U+54C8", "U+54C8", "U+54C8">>

Sp6 == <<" ", " ", " ", " ", " ", " ">>

\* windows for the quality gate: with and without keyword, with
\* advertising words in either case, of lengths on both sides of the
\* minimum, with runs of five and six characters and of six spaces
GatePieces ==
    {Lead15, Pad10, Run5, Sp6,
     <<"U+54C8">>,                                \* 哈
     <<"U+53CC", "U+6CE2">>,                      \* 双波
     <<"U+5FAE", "U+4FE1", "U+54A8", "U+8BE2">>,  \* 微信咨询
     <<"Q", "Q">>,
     <<"H", "T", "T", "P">>}

\* windows for the colours: colour characters alone, with 波, behind a cue,
\* inside decoration, on several lines
ColorPieces ==
    {<<"U+7EA2">>, <<"U+7EFF">>, <<"U+84DD">>,  \* 红, 绿, 蓝
     <<"U+6CE2">>,                            \* 波
     <<"U+3010">>,                            \* 【
     <<"U+63A8", "U+8350">>,                  \* 推荐
     <<"U+597D">>,                            \* 好
     <<Newline>>}

\* windows for the results: leads, hit characters, complete and unclosed
\* tags, blanks and line breaks, around lengths of ten characters
ResultPieces ==
    {Lead15, Pad5,
     <<"U+5F00", "U+FF1A", "U+51C6">>,  \* 开：准
     <<"U+51C6">>,                      \* 准
     <<"<", "s", "p", "a", "n", ">">>, <<"<">>, <<" ">>, <<Newline>>}

\* the window "...第160期 双波推荐：红波 开：准..."
ScenarioText ==
    <<".", ".", ".", "U+7B2C", "1", "6", "0", "U+671F", " ",
      "U+53CC", "U+6CE2", "U+63A8", "U+8350", "U+FF1A", "U+7EA2", "U+6CE2",
      " ", "U+5F00", "U+FF1A", "U+51C6", ".", ".", ".">>

Windows ==
    TextsOf(GatePieces) \cup TextsOf(ColorPieces) \cup TextsOf(ResultPieces)
      \cup {ScenarioText}

\* self.target_period of the scenario, as its digits
TargetPeriod == <<"1", "6", "0">>

\* the other parts of the state at rest
AuxIdle ==
    /\ results_lock = "free"
    /\ lock_pc = "idle"
    /\ fetch = FetchIdle
    /\ page = NoPage
    /\ contexts = <<>>
    /\ ParseIdle
    /\ SessionIdle

\* ---- initial state: the object after __init__ (lines 25-41)
\* An executor starts a thread only for a submitted task, so a pool given
\* more workers than the batch has URLs runs as one of batch_size workers:
\* the configurations taken are those with max_workers <= batch_size, as in
\* the program's own (batch_size = 50, max_workers = 8, lines 474-475).
RunInit ==
    /\ pc = "load"
    /\ batch_size \in 1..MaxBatchSize
    /\ max_workers \in 1..batch_size
    /\ max_workers <= MaxWorkers
    /\ urls = <<>>
    /\ i = 0
    /\ fut = <<>>
    /\ yielded = {}
    /\ pending_exc = "none"
    /\ results = <<>>
    /\ stats = [processed |-> 0, success |-> 0, failed |-> 0]
    /\ \/ file_exists = FALSE /\ file_rows = <<>>
       \/ file_exists = TRUE /\ file_rows = <<Header, OldRow>>
    /\ existed = file_exists
    /\ exit_kind = "running"
    /\ save_log = <<>>
    /\ batch_log = <<>>
    /\ batches_done = 0
    /\ flush_opps = 0
    /\ pauses = 0
    /\ accepted = <<>>
    /\ lost = {}
    /\ interrupted_at = -1

Init ==
    /\ RunInit
    /\ input_file \in {UnreadableInput} \cup {LinkTable(n) : n \in 0..MaxUrls}
    /\ AuxIdle

\* ---- run(), lines 398-402: the link list is read
LoadLinks ==
    /\ pc = "load"
    /\ ReadCsvOk(input_file)
    /\ HasLinkColumn(input_file)
    /\ urls' = LinkList(input_file)
    /\ i' = 0
    /\ pc' = "loop"
    /\ UNCHANGED <<batch_size, max_workers, existed, input_file, auxVars, fut, yielded, pending_exc,
                   exit_kind, batch_log, batches_done, flush_opps, pauses, accepted, lost,
                   interrupted_at>>
    /\ UNCHANGED sinkVars

\* read_csv or df['link'] raises: control goes to the handler of line 440
LoadLinksFails ==
    /\ pc = "load"
    /\ ~(ReadCsvOk(input_file) /\ HasLinkColumn(input_file))
    /\ IF RunCatches("load_error")
       THEN pc' = "except" /\ exit_kind' = exit_kind
       ELSE pc' = "done" /\ exit_kind' = "raised"
    /\ UNCHANGED <<batch_size, max_workers, existed, input_file, auxVars, urls, i, fut, yielded, pending_exc,
                   batch_log, batches_done, flush_opps, pauses, accepted, lost,
                   interrupted_at>>
    /\ UNCHANGED sinkVars

\* lines 410-417 and 370-371: the next slice is submitted to a new executor
StartBatch ==
    /\ pc = "loop"
    /\ i < Len(urls)
    /\ LET batch_urls == BatchSlice(urls, i, batch_size)
           first == i + 1
           last == i + Len(batch_urls)
       IN  /\ batch_log' = Append(batch_log, batch_urls)
           /\ fut' = [u \in (DOMAIN fut) \cup (first..last) |->
                        IF u \in first..last
                        THEN [batch |-> Len(batch_log) + 1, st |-> "queued",
                              success |-> FALSE, n |-> 0]
                        ELSE fut[u]]
    /\ yielded' = {}
    /\ pc' = "collect"
    /\ UNCHANGED <<batch_size, max_workers, existed, input_file, auxVars, urls, i, pending_exc, exit_kind,
                   batches_done, flush_opps, pauses, accepted, lost, interrupted_at>>
    /\ UNCHANGED sinkVars

\* line 410: the range is exhausted
LoopExit ==
    /\ pc = "loop"
    /\ ~(i < Len(urls))
    /\ pc' = "final"
    /\ UNCHANGED <<batch_size, max_workers, existed, input_file, auxVars, urls, i, fut, yielded, pending_exc,
                   exit_kind, batch_log, batches_done, flush_opps, pauses, accepted, lost,
                   interrupted_at>>
    /\ UNCHANGED sinkVars

\* a pool thread takes a queued task (at most max_workers threads per pool)
TaskStart(u) ==
    /\ fut[u].st = "queued"
    /\ Cardinality(Running(fut[u].batch)) < max_workers
    /\ fut' = [fut EXCEPT ![u].st = "running"]
    /\ UNCHANGED <<pc, batch_size, max_workers, existed, input_file, auxVars, urls, i, yielded, pending_exc,
                   exit_kind, batch_log, batches_done, flush_opps, pauses, accepted, lost,
                   interrupted_at>>
    /\ UNCHANGED sinkVars

\* process_single_url (lines 336-345) returns (False, []) or (True, data);
\* it catches every Exception, so the future never holds one; requests
\* refuses an entry that is no URL, which makes the task fail
TaskFinish(u) ==
    /\ fut[u].st = "running"
    /\ \/ fut' = [fut EXCEPT ![u].st = "finished"]
       \/ /\ WellFormed(urls[u])
          /\ \E k \in 0..MaxData :
             fut' = [fut EXCEPT ![u] = [batch |-> fut[u].batch,
                                        st |-> "finished",
                                        success |-> TRUE, n |-> k]]
    /\ UNCHANGED <<pc, batch_size, max_workers, existed, input_file, auxVars, urls, i, yielded, pending_exc,
                   exit_kind, batch_log, batches_done, flush_opps, pauses, accepted, lost,
                   interrupted_at>>
    /\ UNCHANGED sinkVars

\* lines 373-385: one turn of the as_completed loop, under results_lock
Collect(u) ==
    /\ pc = "collect"
    /\ u \in TasksOf(CurrentBatch) \ yielded
    /\ CanYield(fut[u])
    /\ yielded' = yielded \cup {u}
    /\ fut' = [fut EXCEPT ![u] = Consumed(fut[u])]
    /\ stats' = StatsAfter(stats, fut[u].success)
    /\ results' = IF fut[u].success
                  THEN results \o PageData(urls[u], fut[u].n)
                  ELSE results
    /\ accepted' = IF fut[u].success
                   THEN accepted \o PageData(urls[u], fut[u].n)
                   ELSE accepted
    /\ UNCHANGED <<pc, batch_size, max_workers, existed, input_file, auxVars, urls, i, pending_exc,
                   exit_kind, batch_log, batches_done, flush_opps, pauses, lost,
                   interrupted_at, file_exists, file_rows, save_log>>

\* line 373: as_completed is exhausted, the with-block is left
BatchComplete ==
    /\ pc = "collect"
    /\ AllYielded(TasksOf(CurrentBatch), yielded)
    /\ pc' = "shutdown"
    /\ UNCHANGED <<batch_size, max_workers, existed, input_file, auxVars, urls, i, fut, yielded, pending_exc,
                   exit_kind, batch_log, batches_done, flush_opps, pauses, accepted, lost,
                   interrupted_at>>
    /\ UNCHANGED sinkVars

\* line 373: as_completed(timeout=300) raises TimeoutError while futures are
\* still to be handed out; the for statement is outside the try of line 375
BatchTimeout ==
    /\ pc = "collect"
    /\ ~AllYielded(TasksOf(CurrentBatch), yielded)
    /\ pending_exc' = "timeout"
    /\ lost' = lost \cup {u \in TasksOf(CurrentBatch) \ yielded :
                              fut[u].st # "finished"}
    /\ pc' = "shutdown"
    /\ UNCHANGED <<batch_size, max_workers, existed, input_file, auxVars, urls, i, fut, yielded, exit_kind,
                   batch_log, batches_done, flush_opps, pauses, accepted, interrupted_at>>
    /\ UNCHANGED sinkVars

\* line 370: the with-block ends once the pool has run every submitted task;
\* then process_urls_batch returns, or the pending exception goes on to run()
ShutdownDone ==
    /\ pc = "shutdown"
    /\ ExecutorJoined(TasksOf(CurrentBatch))
    /\ \/ /\ pending_exc = "none"
          /\ batches_done' = batches_done + 1
          /\ pc' = "flush"
          /\ UNCHANGED <<pending_exc, exit_kind>>
       \/ /\ pending_exc = "timeout"
          /\ pending_exc' = "none"
          /\ IF RunCatches("timeout")
             THEN pc' = "except" /\ exit_kind' = exit_kind
             ELSE pc' = "done" /\ exit_kind' = "raised"
          /\ UNCHANGED batches_done
       \/ /\ pending_exc = "interrupt"
          /\ pending_exc' = "none"
          /\ pc' = "done"
          /\ exit_kind' = "interrupted"
          /\ UNCHANGED batches_done
    /\ UNCHANGED <<batch_size, max_workers, existed, input_file, auxVars, urls, i, fut, yielded, batch_log,
                   flush_opps, pauses, accepted, lost, interrupted_at>>
    /\ UNCHANGED sinkVars

\* lines 419-429: the incremental save after a batch and the pause before
\* the next one, then the next index
AfterBatch ==
    /\ pc = "flush"
    /\ flush_opps' = flush_opps + 1
    /\ pauses' = IF PauseAfter(i, batch_size, Len(urls))
                 THEN pauses + 1 ELSE pauses
    /\ IF ShouldFlush(results)
       THEN SaveResults(TRUE)
       ELSE UNCHANGED <<file_rows, file_exists, results, save_log>>
    /\ i' = NextStart(i, batch_size)
    /\ pc' = "loop"
    /\ UNCHANGED <<batch_size, max_workers, existed, input_file, auxVars, urls, fut, yielded, pending_exc,
                   exit_kind, batch_log, batches_done, accepted, lost,
                   interrupted_at, stats>>

\* lines 431-438: the final save and the summary
FinalSave ==
    /\ pc = "final"
    /\ SaveResults(FALSE)
    /\ pc' = "done"
    /\ exit_kind' = "normal"
    /\ UNCHANGED <<batch_size, max_workers, existed, input_file, auxVars, urls, i, fut, yielded, pending_exc,
                   batch_log, batches_done, flush_opps, pauses, accepted, lost, interrupted_at,
                   stats>>

\* lines 440-444: the handler of run()
ExceptHandler ==
    /\ pc = "except"
    /\ IF results # <<>>
       THEN SaveResults(FALSE)
       ELSE UNCHANGED <<file_rows, file_exists, results, save_log>>
    /\ pc' = "done"
    /\ exit_kind' = "aborted"
    /\ UNCHANGED <<batch_size, max_workers, existed, input_file, auxVars, urls, i, fut, yielded, pending_exc,
                   batch_log, batches_done, flush_opps, pauses, accepted, lost, interrupted_at,
                   stats>>

\* KeyboardInterrupt in the main thread.  It is no Exception: neither the
\* handlers of lines 387-394 nor the handler of line 440 catch it.  Raised in
\* the as_completed loop it unwinds through the with-block, which joins the
\* executor first; raised during that join it ends the join as well, and the
\* pool threads go on alone.
Interrupt ==
    /\ pc \in {"load", "loop", "collect", "shutdown", "flush", "final", "except"}
    /\ interrupted_at' = Len(save_log)
    /\ IF pc = "collect"
       THEN /\ pending_exc' = "interrupt"
            /\ pc' = "shutdown"
            /\ UNCHANGED exit_kind
       ELSE /\ pc' = "done"
            /\ exit_kind' = "interrupted"
            /\ pending_exc' = "none"
    /\ UNCHANGED <<batch_size, max_workers, existed, input_file, auxVars, urls, i, fut, yielded, batch_log,
                   batches_done, flush_opps, pauses, accepted, lost>>
    /\ UNCHANGED sinkVars

Next ==
    \/ LoadLinks
    \/ LoadLinksFails
    \/ StartBatch
    \/ LoopExit
    \/ \E u \in DOMAIN fut : TaskStart(u)
    \/ \E u \in DOMAIN fut : TaskFinish(u)
    \/ \E u \in DOMAIN fut : Collect(u)
    \/ BatchComplete
    \/ BatchTimeout
    \/ ShutdownDone
    \/ AfterBatch
    \/ FinalSave
    \/ ExceptHandler
    \/ Interrupt

Spec == Init /\ [][Next]_vars


\* the steps the program takes by itself: every step of Next but the
\* arrival of KeyboardInterrupt and the expiry of the 300 s of as_completed
ProgramNext ==
    \/ LoadLinks
    \/ LoadLinksFails
    \/ StartBatch
    \/ LoopExit
    \/ \E u \in DOMAIN fut : TaskStart(u)
    \/ \E u \in DOMAIN fut : TaskFinish(u)
    \/ \E u \in DOMAIN fut : Collect(u)
    \/ BatchComplete
    \/ ShutdownDone
    \/ AfterBatch
    \/ FinalSave
    \/ ExceptHandler

\* the main thread and the pool threads keep running, and every call of
\* session.get ends, with a response or with its timeout of 15 s (line 116):
\* a step the program can take is taken in the end
LiveSpec == Init /\ [][Next]_vars /\ WF_vars(ProgramNext)

(***************************************************************************)
(* The sink on its own: save_results is a public method, here called with  *)
(* either argument in any order, between extensions of the buffer.         *)
(***************************************************************************)

\* lines 378-383: the records of one more page join the buffer
SinkExtend ==
    /\ stats.processed < MaxPages
    /\ \E k \in 1..MaxData :
          results' = results \o PageData(stats.processed + 1, k)
    /\ stats' = StatsAfter(stats, TRUE)
    /\ UNCHANGED <<file_exists, file_rows, save_log>>
    /\ UNCHANGED schedVars
    /\ UNCHANGED auxVars

\* lines 347-366: one call of save_results
SinkSave ==
    /\ Len(save_log) < MaxCalls
    /\ \E incremental \in BOOLEAN : SaveResults(incremental)
    /\ UNCHANGED stats
    /\ UNCHANGED schedVars
    /\ UNCHANGED auxVars

SinkNext == SinkExtend \/ SinkSave

\* the sink reads neither batch_size nor max_workers: the defaults stand
SinkInit ==
    /\ Init
    /\ batch_size = 1
    /\ max_workers = 1
    /\ input_file = UnreadableInput

SinkSpec == SinkInit /\ [][SinkNext]_vars

(***************************************************************************)
(* The main thread's use of results_lock, statement by statement: the body *)
(* of the as_completed loop (lines 378-385) and the calls of save_results  *)
(* made by run() (lines 420-421 and 432).  The pool threads only run       *)
(* process_single_url, which touches neither the lock, the buffer nor the  *)
(* counters.                                                               *)
(***************************************************************************)

\* line 378: with self.results_lock
LockAcquire ==
    /\ lock_pc = "idle"
    /\ results_lock = "free"
    /\ stats.processed < MaxPages
    /\ results_lock' = "main"
    /\ lock_pc' = "held"
    /\ UNCHANGED sinkVars
    /\ UNCHANGED schedVars
    /\ UNCHANGED <<fetchVars, extractVars, parseVars, sessionVars>>

\* lines 379-385: the counters and the buffer take one result
LockedUpdate ==
    /\ lock_pc = "held"
    /\ \E success \in BOOLEAN, k \in 0..MaxData :
          /\ stats' = StatsAfter(stats, success)
          /\ results' = IF success
                        THEN results \o PageData(stats.processed + 1, k)
                        ELSE results
    /\ lock_pc' = "updated"
    /\ UNCHANGED <<file_exists, file_rows, save_log>>
    /\ UNCHANGED schedVars
    /\ UNCHANGED <<results_lock, fetchVars, extractVars, parseVars, sessionVars>>

\* the with-block of line 378 is left
LockRelease ==
    /\ lock_pc = "updated"
    /\ results_lock' = "free"
    /\ lock_pc' = "idle"
    /\ UNCHANGED sinkVars
    /\ UNCHANGED schedVars
    /\ UNCHANGED <<fetchVars, extractVars, parseVars, sessionVars>>

\* lines 420-421 and 432: run() calls save_results; neither run() nor
\* save_results (lines 347-366) acquires results_lock
UnlockedSave ==
    /\ lock_pc = "idle"
    /\ Len(save_log) < MaxCalls
    /\ \/ ShouldFlush(results) /\ SaveResults(TRUE)
       \/ SaveResults(FALSE)
    /\ UNCHANGED stats
    /\ UNCHANGED schedVars
    /\ UNCHANGED auxVars

LockNext == LockAcquire \/ LockedUpdate \/ LockRelease \/ UnlockedSave

LockSpec == SinkInit /\ [][LockNext]_vars

(***************************************************************************)
(* A worker's calls of process_single_url, statement by statement, each    *)
(* followed by the main thread's accounting of its result.                 *)
(***************************************************************************)

\* line 118: session.get sends the request; a connection error or a timeout
\* is retried by the adapter or, with no retry left, raised
SendRequest ==
    /\ fetch.pc = "request"
    /\ \/ fetch' = [fetch EXCEPT !.attempts = @ + 1, !.pc = "status"]
       \/ fetch' = [fetch EXCEPT !.attempts = @ + 1,
                                 !.pc = IF RetryAgain(fetch.attempts + 1)
                                        THEN "request" ELSE "handler",
                                 !.cause = IF RetryAgain(fetch.attempts + 1)
                                           THEN "none" ELSE "network"]
    /\ UNCHANGED sinkVars
    /\ UNCHANGED schedVars
    /\ UNCHANGED <<lockVars, extractVars, parseVars, sessionVars>>

\* line 119: response.raise_for_status()
CheckStatus ==
    /\ fetch.pc = "status"
    /\ \/ fetch' = [fetch EXCEPT !.pc = "body"]
       \/ fetch' = [fetch EXCEPT !.pc = "handler", !.cause = "status"]
    /\ UNCHANGED sinkVars
    /\ UNCHANGED schedVars
    /\ UNCHANGED <<lockVars, extractVars, parseVars, sessionVars>>

\* lines 121-122: response.content reads the whole body, whatever its size;
\* a broken transfer or content encoding raises
ReadBody ==
    /\ fetch.pc = "body"
    /\ \/ \E big \in BOOLEAN :
             fetch' = [fetch EXCEPT !.big = big, !.pc = "decode"]
       \/ fetch' = [fetch EXCEPT !.pc = "handler", !.cause = "malformed"]
    /\ UNCHANGED sinkVars
    /\ UNCHANGED schedVars
    /\ UNCHANGED <<lockVars, extractVars, parseVars, sessionVars>>

\* lines 124-140: the bytes are decoded with the detected encoding, else with
\* the first fallback that fits; what decode raises beyond UnicodeDecodeError
\* goes to the handler of line 142
DecodeBody ==
    /\ fetch.pc = "decode"
    /\ \E enc \in DetectedEncodings :
          IF DecodeRaises(enc)
          THEN fetch' = [fetch EXCEPT !.enc = enc, !.pc = "handler",
                                      !.cause = "decode"]
          ELSE \E content \in {"text", "empty"} :
                  fetch' = [fetch EXCEPT !.enc = enc, !.ret = content,
                                         !.pc = "returned"]
    /\ UNCHANGED sinkVars
    /\ UNCHANGED schedVars
    /\ UNCHANGED <<lockVars, extractVars, parseVars, sessionVars>>

\* lines 142-144: the handler of fetch_url_content returns None
FetchHandler ==
    /\ fetch.pc = "handler"
    /\ fetch' = [fetch EXCEPT !.ret = IF FetchCatches(fetch.cause)
                                      THEN "none" ELSE "raised",
                              !.pc = "returned"]
    /\ UNCHANGED sinkVars
    /\ UNCHANGED schedVars
    /\ UNCHANGED <<lockVars, extractVars, parseVars, sessionVars>>

\* lines 338-345: process_single_url parses the text it got, or fails
ProcessSingleUrl ==
    /\ fetch.pc = "returned"
    /\ IF fetch.ret # "raised" /\ Truthy(fetch.ret)
       THEN \E k \in 0..MaxData :
               fetch' = [fetch EXCEPT !.task = "success", !.n = k,
                                      !.pc = "task_done"]
       ELSE fetch' = [fetch EXCEPT !.task = "failed", !.pc = "task_done"]
    /\ UNCHANGED sinkVars
    /\ UNCHANGED schedVars
    /\ UNCHANGED <<lockVars, extractVars, parseVars, sessionVars>>

\* lines 376-385: the main thread takes the result of the future
FetchCollect ==
    /\ fetch.pc = "task_done"
    /\ stats' = StatsAfter(stats, fetch.task = "success")
    /\ results' = IF fetch.task = "success"
                  THEN results \o PageData(stats.processed + 1, fetch.n)
                  ELSE results
    /\ fetch' = [fetch EXCEPT !.pc = "counted"]
    /\ UNCHANGED <<file_exists, file_rows, save_log>>
    /\ UNCHANGED schedVars
    /\ UNCHANGED <<lockVars, extractVars, parseVars, sessionVars>>

\* lines 370-371: the next URL is given to process_single_url
FetchNextUrl ==
    /\ fetch.pc = "counted"
    /\ stats.processed < MaxFetches
    /\ fetch' = FetchCall
    /\ UNCHANGED sinkVars
    /\ UNCHANGED schedVars
    /\ UNCHANGED <<lockVars, extractVars, parseVars, sessionVars>>

FetchNext ==
    \/ SendRequest
    \/ CheckStatus
    \/ ReadBody
    \/ DecodeBody
    \/ FetchHandler
    \/ ProcessSingleUrl
    \/ FetchCollect
    \/ FetchNextUrl

FetchInit ==
    /\ RunInit
    /\ batch_size = 1
    /\ max_workers = 1
    /\ ~file_exists
    /\ input_file = LinkTable(MaxFetches)
    /\ results_lock = "free"
    /\ lock_pc = "idle"
    /\ fetch = FetchCall
    /\ page = NoPage
    /\ contexts = <<>>
    /\ ParseIdle
    /\ SessionIdle

FetchSpec == FetchInit /\ [][FetchNext]_vars

(***************************************************************************)
(* parse_single_period on any page: the choice of the contexts             *)
(***************************************************************************)

\* lines 255-262: both strategies run, then one list of contexts is chosen
ParseSinglePeriod ==
    /\ page.pc = "fetched"
    /\ contexts' = SelectContexts(BsContexts(page), RegexContexts(page))
    /\ page' = [page EXCEPT !.pc = "parsed"]
    /\ UNCHANGED sinkVars
    /\ UNCHANGED schedVars
    /\ UNCHANGED <<lockVars, fetchVars, parseVars, sessionVars>>

ExtractNext == ParseSinglePeriod

ExtractInit ==
    /\ RunInit
    /\ batch_size = 1
    /\ max_workers = 1
    /\ ~file_exists
    /\ input_file = UnreadableInput
    /\ results_lock = "free"
    /\ lock_pc = "idle"
    /\ fetch = FetchIdle
    /\ page \in Pages
    /\ contexts = <<>>
    /\ ParseIdle
    /\ SessionIdle

ExtractSpec == ExtractInit /\ [][ExtractNext]_vars

\* pages long enough for a window to touch neither end of the page: up to
\* MaxLongLines lines, among them no, one or two lines with the marker
\* (lines a and b) and no or one blank line (line c)
LongPage(n, a, b, c, f) ==
    [pc |-> "fetched",
     lines |-> [k \in 1..n |-> IF k \in {a, b} THEN "mark"
                               ELSE IF k = c THEN "blank"
                               ELSE "text"],
     bs_fails |-> f]

WindowInit ==
    /\ RunInit
    /\ batch_size = 1
    /\ max_workers = 1
    /\ ~file_exists
    /\ input_file = UnreadableInput
    /\ results_lock = "free"
    /\ lock_pc = "idle"
    /\ fetch = FetchIdle
    /\ \E n \in 0..MaxLongLines :
          \E a \in 0..n, b \in 0..n, c \in 0..n, f \in BOOLEAN :
              page = LongPage(n, a, b, c, f)
    /\ contexts = <<>>
    /\ ParseIdle
    /\ SessionIdle

\* parse_single_period on the long pages
WindowSpec == WindowInit /\ [][ExtractNext]_vars

(***************************************************************************)
(* The pool threads' sessions: each thread calls fetch_url_content any     *)
(* number of times, which gets the session (line 115) and then sends the   *)
(* request on it (line 118).                                               *)
(***************************************************************************)

\* lines 80-102: get_session creates the session on the thread's first call
GetSession(t) ==
    /\ SessionAttr(session_local, t) = 0
    /\ session_local' = [session_local EXCEPT ![t] = Len(session_users) + 1]
    /\ session_users' = Append(session_users, [threads |-> {}, requests |-> 0])
    /\ UNCHANGED sinkVars
    /\ UNCHANGED schedVars
    /\ UNCHANGED <<lockVars, fetchVars, extractVars, parseVars>>

\* lines 115-118: get_session returns the session the thread sees, and
\* session.get sends the request on it
SessionRequest(t) ==
    /\ SessionAttr(session_local, t) # 0
    /\ session_users[SessionAttr(session_local, t)].requests < MaxFetches
    /\ session_users' =
          [session_users EXCEPT ![SessionAttr(session_local, t)] =
              [threads |-> @.threads \cup {t}, requests |-> @.requests + 1]]
    /\ UNCHANGED session_local
    /\ UNCHANGED sinkVars
    /\ UNCHANGED schedVars
    /\ UNCHANGED <<lockVars, fetchVars, extractVars, parseVars>>

SessionNext ==
    \/ \E t \in Threads : GetSession(t)
    \/ \E t \in Threads : SessionRequest(t)

SessionInit ==
    /\ RunInit
    /\ batch_size = 1
    /\ max_workers = 1
    /\ ~file_exists
    /\ input_file = UnreadableInput
    /\ results_lock = "free"
    /\ lock_pc = "idle"
    /\ fetch = FetchIdle
    /\ page = NoPage
    /\ contexts = <<>>
    /\ ParseIdle
    /\ session_local = [t \in Threads |-> 0]
    /\ session_users = <<>>

SessionSpec == SessionInit /\ [][SessionNext]_vars

(***************************************************************************)
(* parse_single_period on one context window (the body of the loop of      *)
(* lines 264-277), and has_excessive_repetition called on the window by    *)
(* itself.                                                                 *)
(***************************************************************************)

\* lines 265-267: the three extractors; each returns list(a_set)
ExtractFields ==
    /\ parsed.pc = "context"
    /\ \E kws \in Orderings(ExtractKeywords(window)),
          cols \in ExtractColors(window),
          res \in Orderings(ExtractResults(window)) :
            parsed' = [pc |-> "extracted", keywords |-> kws,
                       colors |-> cols, results |-> res]
    /\ UNCHANGED window
    /\ UNCHANGED sinkVars
    /\ UNCHANGED schedVars
    /\ UNCHANGED <<lockVars, fetchVars, extractVars, sessionVars>>

\* lines 270-277: the record is built and appended when the gate accepts
AppendIfValid ==
    /\ parsed.pc = "extracted"
    /\ parsed' =
          [pc |-> "done", keywords |-> parsed.keywords,
           colors |-> parsed.colors, results |-> parsed.results,
           all_data |->
              IF IsValidContent(window, parsed.keywords, parsed.colors)
              THEN <<[period |-> TargetPeriod \o <<"U+671F">>,
                      keywords |-> Join(parsed.keywords),
                      colors |-> IF parsed.colors # <<>>
                                 THEN Join(parsed.colors) ELSE <<>>,
                      results |-> IF parsed.results # <<>>
                                  THEN Join(parsed.results) ELSE <<>>]>>
              ELSE <<>>]
    /\ UNCHANGED window
    /\ UNCHANGED sinkVars
    /\ UNCHANGED schedVars
    /\ UNCHANGED <<lockVars, fetchVars, extractVars, sessionVars>>

\* lines 312-323: has_excessive_repetition(window), called by itself
CheckRepetition ==
    /\ parsed.pc = "context"
    /\ parsed' = [pc |-> "checked",
                  repeats |-> HasExcessiveRepetition(window)]
    /\ UNCHANGED window
    /\ UNCHANGED sinkVars
    /\ UNCHANGED schedVars
    /\ UNCHANGED <<lockVars, fetchVars, extractVars, sessionVars>>

ParseNext ==
    \/ ExtractFields
    \/ AppendIfValid
    \/ CheckRepetition

ParseInit ==
    /\ RunInit
    /\ batch_size = 1
    /\ max_workers = 1
    /\ ~file_exists
    /\ input_file = UnreadableInput
    /\ results_lock = "free"
    /\ lock_pc = "idle"
    /\ fetch = FetchIdle
    /\ page = NoPage
    /\ contexts = <<>>
    /\ window \in Windows
    /\ parsed = [pc |-> "context"]
    /\ SessionIdle

ParseSpec == ParseInit /\ [][ParseNext]_vars


(***************************************************************************)
(* parse_single_period on a page of plain text, from the lines of the page *)
(* to the records: the marker test on the text of each line, the windows   *)
(* joined from the lines, and the loop of lines 264-277 over the windows.  *)
(***************************************************************************)

\* lines 165 and 184: f"{target_period}期"
PeriodMarker == TargetPeriod \o <<"U+671F">>

\* lines 165 and 184: `marker in line`
HasMarker(line) == Contains(line, PeriodMarker)

\* lines 169 and 188: '\n'.join(lines)
RECURSIVE JoinLines(_)
JoinLines(lines) ==
    IF lines = <<>> THEN <<>>
    ELSE IF Len(lines) = 1 THEN lines[1]
    ELSE lines[1] \o <<Newline>> \o JoinLines(Tail(lines))

\* lines 164-170 and 183-189: one window for each line that holds the
\* marker, the lines from radius before it to radius behind it
TextContexts(lines, radius) ==
    LET hits == SelectSeq([k \in 1..Len(lines) |-> k],
                          LAMBDA k : HasMarker(lines[k]))
    IN  [h \in 1..Len(hits) |->
            JoinLines(SubSeq(lines, Max(1, hits[h] - radius),
                             Min(Len(lines), hits[h] + radius)))]

\* 161期 and five characters, 161期162期 and five characters
Line161 == <<"1", "6", "1", "U+671F">> \o Pad5
Line161162 ==
    <<"1", "6", "1", "U+671F", "1", "6", "2", "U+671F">> \o Pad5

\* the lines of the pages: the marker of the target issue 160, the issue
\* 1160 whose number ends with the digits of the target, one and two other
\* issues, and a line without issue number
IssueLines ==
    {PeriodMarker \o Lead15, <<"1">> \o PeriodMarker \o Lead15,
     Line161, Line161162, Pad5}

\* pages whose text is free of tags and of blank lines, so that get_text
\* (line 157) and split (line 181) see the same lines
IssuePages ==
    UNION {{[pc |-> "fetched", lines |-> ls, bs_fails |-> f] :
              ls \in [1..n -> IssueLines], f \in BOOLEAN} :
           n \in 0..MaxIssueLines}

\* lines 255-262: both strategies run, then one list of contexts is chosen
IssueContexts ==
    /\ page.pc = "fetched"
    /\ contexts' =
          SelectContexts(IF page.bs_fails THEN <<>>
                         ELSE TextContexts(page.lines, BsRadius),
                         TextContexts(page.lines, RegexRadius))
    /\ page' = [page EXCEPT !.pc = "parsed"]
    /\ UNCHANGED sinkVars
    /\ UNCHANGED schedVars
    /\ UNCHANGED <<lockVars, fetchVars, parseVars, sessionVars>>

\* line 264: the loop takes the next context
NextContext ==
    /\ page.pc = "parsed"
    /\ parsed.pc \in {"none", "done"}
    /\ contexts # <<>>
    /\ window' = Head(contexts)
    /\ contexts' = Tail(contexts)
    /\ parsed' = [pc |-> "context"]
    /\ UNCHANGED page
    /\ UNCHANGED sinkVars
    /\ UNCHANGED schedVars
    /\ UNCHANGED <<lockVars, fetchVars, sessionVars>>

IssueNext ==
    \/ IssueContexts
    \/ NextContext
    \/ ExtractFields
    \/ AppendIfValid

IssueInit ==
    /\ RunInit
    /\ batch_size = 1
    /\ max_workers = 1
    /\ ~file_exists
    /\ input_file = UnreadableInput
    /\ results_lock = "free"
    /\ lock_pc = "idle"
    /\ fetch = FetchIdle
    /\ page \in IssuePages
    /\ contexts = <<>>
    /\ ParseIdle
    /\ SessionIdle

IssueSpec == IssueInit /\ [][IssueNext]_vars

(***************************************************************************)
(* run() on any input table, one URL per batch and one worker, the output  *)
(* file absent.                                                            *)
(***************************************************************************)
InputInit ==
    /\ RunInit
    /\ batch_size = 1
    /\ max_workers = 1
    /\ ~file_exists
    /\ input_file \in InputTables
    /\ AuxIdle

InputSpec == InputInit /\ [][Next]_vars

(***************************************************************************)
(* Properties of the sink                                                  *)
(***************************************************************************)
IsPrefixOf(s, t) == Len(s) <= Len(t) /\ Prefix(t, Len(s)) = s

\* a step in which save_results was called
SaveStep == Len(save_log') = Len(save_log) + 1

\* the calls that found records in the buffer
Attempts == {a \in DOMAIN save_log : save_log[a].offered # <<>>}

RECURSIVE OfferedUpTo(_)
OfferedUpTo(a) ==
    IF a = 0 THEN <<>> ELSE OfferedUpTo(a - 1) \o save_log[a].offered

\* C1: rows once written to the output file are never removed or replaced by
\* a later operation of the same run: every record that some call of
\* save_results wrote successfully is still in the file, whatever batches,
\* failed or successful incremental flushes, final flush or abort-path flush
\* followed.
C1_WrittenRowsStay ==
    \A a \in DOMAIN save_log :
        save_log[a].ok => Range(save_log[a].offered) \subseteq Range(file_rows)

OnlyGoodIncremental ==
    /\ ~existed
    /\ Attempts # {}
    /\ \A a \in DOMAIN save_log : save_log[a].inc /\ save_log[a].ok

\* C2: starting from an absent output file, after K >= 1 successful
\* incremental flushes and no other flush, the file holds exactly one header
\* row, as its first row, followed by exactly the N flushed records.
C2_OneHeaderThenNRows ==
    OnlyGoodIncremental =>
        /\ file_exists
        /\ Len(file_rows) = 1 + Len(OfferedUpTo(Len(save_log)))
        /\ file_rows[1] = Header
        /\ \A k \in 2..Len(file_rows) : file_rows[k] # Header
        /\ file_rows = <<Header>> \o OfferedUpTo(Len(save_log))

C2_Witness ==
    /\ OnlyGoodIncremental
    /\ Cardinality(Attempts) >= 2
    /\ Len(file_rows) >= 3

\* C3: a flush that fails while writing leaves the buffer exactly as it was,
\* does not abort the run (after a failed incremental flush the loop goes on,
\* after a failed final flush the run ends normally), and the next flush is
\* offered the same records again, ahead of any newer ones.
C3_FailedFlushKeepsBuffer ==
    [][/\ (SaveStep /\ save_log # <<>> /\ ~Last(save_log).ok) =>
              IsPrefixOf(Last(save_log).offered, Last(save_log').offered)
       /\ (SaveStep /\ ~Last(save_log').ok) =>
          /\ results' = results
          /\ results # <<>>
          /\ pc = "flush" => pc' = "loop"
          /\ pc = "final" => exit_kind' = "normal"]_vars

C3_Witness ==
    /\ Len(save_log) >= 2
    /\ ~save_log[1].ok
    /\ save_log[1].inc
    /\ IsPrefixOf(save_log[1].offered, save_log[2].offered)
    /\ Len(save_log[2].offered) > Len(save_log[1].offered)
    /\ exit_kind = "normal"

NoRecordWrittenTwice ==
    \A a, b \in DOMAIN save_log :
        a < b => Range(save_log[a].written) \cap Range(save_log[b].written) = {}

\* C4: the buffer is cleared exactly when its contents have been written:
\* every flush that succeeds in writing the buffer, incremental or final,
\* leaves the buffer empty, nothing else empties the buffer, and no record is
\* written to the file by two different flushes.
C4_ClearedExactlyWhenWritten ==
    [][/\ (SaveStep /\ Last(save_log').ok /\ results # <<>>) => results' = <<>>
       /\ (results # <<>> /\ results' = <<>>) => (SaveStep /\ Last(save_log').ok)
       /\ NoRecordWrittenTwice']_vars

\* C5: a call of save_results that finds the buffer empty, incremental or
\* final, changes nothing: the file is neither created nor extended and the
\* buffer stays empty.
C5_EmptyFlushIsNoOp ==
    [][(SaveStep /\ results = <<>>) =>
          /\ file_exists' = file_exists
          /\ file_rows' = file_rows
          /\ results' = <<>>]_vars

C5_Witness ==
    /\ ~file_exists
    /\ \E a, b \in DOMAIN save_log :
          /\ save_log[a].inc /\ save_log[a].offered = <<>>
          /\ ~save_log[b].inc /\ save_log[b].offered = <<>>

(***************************************************************************)
(* Properties of the scheduler                                             *)
(***************************************************************************)
AllFinished == \A u \in DOMAIN fut : fut[u].st = "finished"

\* C6: when KeyboardInterrupt ends the run while records are buffered, a
\* flush of the buffered records is attempted after the interrupt and before
\* the run ends.
C6_InterruptStillFlushes ==
    (pc = "done" /\ exit_kind = "interrupted" /\ results # <<>>) =>
        Len(save_log) > interrupted_at

\* C7: when a batch's completion timeout expires with tasks outstanding, each
\* such task is counted as failed exactly once, no other outcome is lost, and
\* the run goes on: every URL of the list is still dispatched.
C7_TimeoutCountedRunContinues ==
    (pc = "done" /\ lost # {} /\ exit_kind # "interrupted") =>
        /\ stats.failed = (stats.processed - stats.success) + Cardinality(lost)
        /\ DOMAIN fut = DOMAIN urls

CeilDiv(n, b) == CHOOSE q \in 0..n : q * b >= n /\ (q = 0 \/ (q - 1) * b < n)

ExpectedBatch(list, b, k) ==
    [j \in 1..(IF k * b <= Len(list) THEN b ELSE Len(list) - (k - 1) * b) |->
        list[(k - 1) * b + j]]

RECURSIVE Flatten(_)
Flatten(ss) == IF ss = <<>> THEN <<>> ELSE Head(ss) \o Flatten(Tail(ss))

Scenario120 ==
    LET list == [k \in 1..120 |-> k]
        bs == BatchesFrom(list, 0, 50)
    IN  /\ Len(bs) = 3
        /\ TotalBatches(120, 50) = 3
        /\ <<Len(bs[1]), Len(bs[2]), Len(bs[3])>> = <<50, 50, 20>>
        /\ \A k \in 1..3 : bs[k] = ExpectedBatch(list, 50, k)
        /\ Flatten(bs) = list

\* C8: the URL list of length N is cut into ceil(N/B) consecutive batches in
\* input order, each of size B except possibly the last, every URL in exactly
\* one batch; 120 URLs with B = 50 give the batches 1..50, 51..100, 101..120.
C8_BatchesPartitionUrls ==
    /\ Scenario120
    /\ TotalBatches(Len(urls), batch_size) = CeilDiv(Len(urls), batch_size)
    /\ Len(batch_log) <= CeilDiv(Len(urls), batch_size)
    /\ \A k \in DOMAIN batch_log :
          batch_log[k] = ExpectedBatch(urls, batch_size, k)
    /\ exit_kind = "normal" =>
          /\ Len(batch_log) = CeilDiv(Len(urls), batch_size)
          /\ batch_log = BatchesFrom(urls, 0, batch_size)
          /\ Flatten(batch_log) = urls

C8_Witness ==
    /\ exit_kind = "normal"
    /\ batch_size = 2
    /\ batch_log = <<<<1, 2>>, <<3>>>>

\* C9: each normal return of process_urls_batch is followed by exactly one
\* evaluation of the flush test; that evaluation calls save_results, with
\* incremental = True and the whole buffer, if and only if the buffer is not
\* empty; and save_results is never called while a batch is in the executor.
C9_OneFlushOpportunityPerBatch ==
    [][/\ batches_done' # batches_done =>
              /\ batches_done' = batches_done + 1
              /\ flush_opps = batches_done
              /\ pc' = "flush"
       /\ flush_opps' # flush_opps =>
              /\ pc = "flush"
              /\ flush_opps' = flush_opps + 1
              /\ flush_opps' = batches_done
              /\ SaveStep <=> results # <<>>
              /\ SaveStep => /\ Last(save_log').inc
                             /\ Last(save_log').offered = results
       /\ (pc = "flush" /\ pc' # "flush") =>
              (flush_opps' = flush_opps + 1 \/ exit_kind' = "interrupted")
       /\ (SaveStep /\ Last(save_log').inc) => flush_opps' = flush_opps + 1
       /\ SaveStep => (pc \in {"flush", "final", "except"} /\ AllFinished)
       /\ pc' \in {"loop", "collect", "shutdown", "final"} =>
              flush_opps' = batches_done']_vars

C9_Witness ==
    /\ pc = "loop"
    /\ flush_opps = 2
    /\ Len(save_log) = 1
    /\ save_log[1].inc

\* C10: batches run strictly one after another: while a task of a batch has
\* not finished, no task of a later batch exists, and whenever run() is at
\* work outside process_urls_batch, having left it normally or by a timeout,
\* no task of any batch is unfinished.
C10_BatchesSequential ==
    /\ \A u, v \in DOMAIN fut :
          fut[u].batch < fut[v].batch => fut[u].st = "finished"
    /\ pc \in {"loop", "flush", "final", "except"} => AllFinished

C10_Witness ==
    /\ pc = "except"
    /\ lost # {}
    /\ \E u, v \in DOMAIN fut : fut[u].batch = 1 /\ fut[v].batch = 2

(***************************************************************************)
(* Properties of the counters and of the dispatch                          *)
(***************************************************************************)
ZeroStats == [processed |-> 0, success |-> 0, failed |-> 0]

\* C12: the counters processed, succeeded and failed each start at 0, and
\* every step of the run leaves each of them equal to or greater than its
\* previous value.
C12_CountersNeverDecrease ==
    /\ stats = ZeroStats
    /\ [][/\ stats'.processed >= stats.processed
          /\ stats'.success >= stats.success
          /\ stats'.failed >= stats.failed]_vars

C12_Witness ==
    /\ stats.success >= 1
    /\ stats.failed >= 1
    /\ stats.processed = 3

\* how often the entry x was handed to an executor
Submissions(x) ==
    Cardinality({k \in DOMAIN Flatten(batch_log) : Flatten(batch_log)[k] = x})

\* C13: each URL of the input list is submitted to the worker pool exactly
\* once during a run: never twice, whether its task succeeded, failed or
\* timed out, and once the run has ended by itself every URL of the list has
\* been submitted.
C13_EachUrlSubmittedOnce ==
    /\ \A k \in DOMAIN urls : Submissions(urls[k]) <= 1
    /\ (pc = "done" /\ exit_kind # "interrupted") =>
          \A k \in DOMAIN urls : Submissions(urls[k]) = 1

(***************************************************************************)
(* Properties of the input                                                 *)
(***************************************************************************)
\* the rows of the table that hold a fully-qualified URL
GoodRows(inp) == {r \in 1..inp.nrows : r \notin inp.bad}

\* C17: malformed, non-string and empty entries of the input column are
\* never submitted to the worker pool and are counted in none of processed,
\* succeeded or failed: every submitted entry is a well-formed URL and the
\* counters count at most the well-formed entries.
C17_MalformedEntriesSkipped ==
    /\ \A b \in DOMAIN batch_log :
          \A k \in DOMAIN batch_log[b] : WellFormed(batch_log[b][k])
    /\ stats.processed <= Cardinality(GoodRows(input_file))
    /\ stats.success + stats.failed <= Cardinality(GoodRows(input_file))

\* the recognized column names, in the order they are tried
RecognizedNames == <<"link", "url", "links", "urls">>

Recognized(inp) ==
    {p \in DOMAIN RecognizedNames : RecognizedNames[p] \in Range(inp.names)}

\* the column the claim selects: the first recognized name the table has,
\* else the first column
ChosenColumn(inp) ==
    IF Recognized(inp) # {}
    THEN IndexOf(inp.names,
                 RecognizedNames[CHOOSE p \in Recognized(inp) :
                                    \A q \in Recognized(inp) : p <= q])
    ELSE 1

\* C18: when the input file is readable and has a column, the step that
\* reads it goes on to the batches with the URL list taken from the first
\* recognized column name the file has (link, url, links, urls), or from the
\* first column when it has none of them; it does not fail.
C18_ColumnRecognizedOrFirst ==
    [][(/\ pc = "load"
        /\ pc' # "load"
        /\ exit_kind' # "interrupted"
        /\ ReadCsvOk(input_file)
        /\ input_file.names # <<>>) =>
           /\ pc' = "loop"
           /\ SelectSeq(urls', WellFormed) =
                 SelectSeq(Column(input_file, ChosenColumn(input_file)),
                           WellFormed)]_vars

\* C19: if the input URL list is missing or unreadable, the run aborts: no
\* URL is dispatched, all counters stay 0, nothing is left in the buffer and
\* the output file is as it was, and unless the operator interrupts it the
\* run ends in its own handler, without raising.
C19_UnreadableInputAborts ==
    ~ReadCsvOk(input_file) =>
        /\ batch_log = <<>>
        /\ fut = <<>>
        /\ stats = ZeroStats
        /\ results = <<>>
        /\ file_exists = existed
        /\ pc \in {"load", "except", "done"}
        /\ exit_kind \in {"running", "aborted", "interrupted"}
        /\ (pc = "done" /\ exit_kind # "interrupted") => exit_kind = "aborted"

C19_Witness ==
    /\ ~ReadCsvOk(input_file)
    /\ pc = "done"
    /\ exit_kind = "aborted"

(***************************************************************************)
(* Properties of the lock                                                  *)
(***************************************************************************)
\* C11: every mutation of the results buffer, adding records as well as
\* clearing after a flush, and every increment of a counter is performed
\* while the main thread holds results_lock.
C11_MutationsUnderLock ==
    [][(results' # results \/ stats' # stats) =>
           (results_lock = "main" /\ results_lock' = "main")]_vars

(***************************************************************************)
(* Properties of the fetcher                                               *)
(***************************************************************************)
\* C14: the fetcher is retry-free: for one call of fetch(url) at most one
\* request attempt is made, and a failed attempt is reported as Failure
\* without being repeated.
C14_AtMostOneAttempt ==
    /\ fetch.attempts <= 1
    /\ fetch.attempts >= 1 => fetch.pc # "request"

FetchOver == fetch.pc \in {"returned", "task_done", "counted"}

TaskOver == fetch.pc \in {"task_done", "counted"}

C16_OversizedBodyFails ==
    /\ (fetch.big /\ FetchOver) => fetch.ret = "none"
    /\ (fetch.big /\ TaskOver) => (fetch.task = "failed" /\ fetch.n = 0)

UsedStrategy == IF BsContexts(page) # <<>> THEN "bs" ELSE "regex"

\* the lines the strategy used has split the page into, as raw line numbers
LinesRead ==
    IF UsedStrategy = "bs"
    THEN VisibleLines(page.lines)
    ELSE [k \in 1..Len(page.lines) |-> k]

MarkedKinds == IF UsedStrategy = "bs" THEN BsMarked ELSE RegexMarked

\* how often the marker occurs in the line of raw number k
OccurrencesIn(k) ==
    IF page.lines[k] \notin MarkedKinds THEN 0
    ELSE IF page.lines[k] = "twice" THEN 2 ELSE 1

RECURSIVE SumOccurrences(_)
SumOccurrences(n) ==
    IF n = 0 THEN 0 ELSE SumOccurrences(n - 1) + OccurrencesIn(LinesRead[n])

\* the positions in LinesRead of the lines holding the marker
MarkerLines == {p \in DOMAIN LinesRead : page.lines[LinesRead[p]] \in MarkedKinds}

\* C21 as stated: the number of windows equals the number of occurrences of
\* the marker in the text the strategy read.
C21_WindowPerOccurrence ==
    page.pc = "parsed" => Len(contexts) = SumOccurrences(Len(LinesRead))

\* C21 as amended: each line holding the marker, however often, produces its
\* own window around it: the number of windows equals the number of such
\* lines, the h-th window is the one around the h-th of them, and overlapping
\* or identical windows are all kept.
C21_WindowPerMarkerLine ==
    page.pc = "parsed" =>
        /\ Len(contexts) = Cardinality(MarkerLines)
        /\ \A h \in DOMAIN contexts :
              \E p \in MarkerLines :
                  /\ Cardinality({q \in MarkerLines : q <= p}) = h
                  /\ LinesRead[p] \in Range(contexts[h].lines)
                  /\ contexts[h].by = UsedStrategy

C21_Witness ==
    /\ page.pc = "parsed"
    /\ Len(contexts) = 3
    /\ contexts[1] = contexts[2]
    /\ \E k \in DOMAIN page.lines : page.lines[k] = "twice"

(***************************************************************************)
(* Properties of the sessions                                              *)
(***************************************************************************)
\* C28: a session is never used by two different worker threads: each
\* thread creates its own session on first use, no two threads hold the same
\* one, every request a thread sends goes over its own session, and the
\* session a thread holds never changes.
C28_SessionPerThread ==
    /\ [](/\ \A s \in DOMAIN session_users :
                /\ Cardinality(session_users[s].threads) <= 1
                /\ \A t \in session_users[s].threads : session_local[t] = s
          /\ \A t, u \in Threads :
                (t # u /\ session_local[t] # 0) =>
                    session_local[t] # session_local[u])
    /\ [][\A t \in Threads :
             session_local[t] # 0 => session_local'[t] = session_local[t]]_vars

C28_Witness ==
    /\ \A t \in Threads : session_local[t] # 0
    /\ \A s \in DOMAIN session_users :
          session_users[s].requests >= 2 /\ session_users[s].threads # {}

\* C29: a successfully retrieved body always decodes to text: whatever the
\* reason decoding with the detected encoding fails, an unknown encoding
\* name included, the fetch returns text and never Failure.
C29_DecodingNeverFails ==
    (fetch.enc # "none" /\ FetchOver) => fetch.ret \in {"text", "empty"}

\* the gate has decided on the window
Gated == parsed.pc = "done"

Rejected == Gated /\ parsed.all_data = <<>>

Recorded == Gated /\ parsed.all_data # <<>>

\* C25: every window whose trimmed length is under 20 characters is
\* rejected by the gate, also when keywords were found in it, so a record
\* comes only from a window of trimmed length at least 20
C25_ShortWindowRejected ==
    /\ Gated /\ Len(Strip(window)) < 20 => Rejected
    /\ Recorded => Len(Strip(window)) >= 20

\* a window of 15 characters with a keyword and no advertising word has
\* been rejected
C25_Witness ==
    /\ Rejected
    /\ Len(window) = 15
    /\ parsed.keywords # <<>>
    /\ ~HasAdWord(window)

\* C23: no record is produced from a window whose keyword list is empty,
\* whatever colours and results were extracted from it, and the keywords
\* field of every record is non-empty
C23_NoRecordWithoutKeywords ==
    /\ Gated /\ parsed.keywords = <<>> => Rejected
    /\ Recorded => parsed.all_data[1].keywords # <<>>

\* a window with colours and results, long enough, without advertising
\* word or repetition, has been rejected for having no keyword
C23_Witness ==
    /\ Rejected
    /\ parsed.keywords = <<>>
    /\ parsed.colors # <<>>
    /\ parsed.results # <<>>
    /\ Len(Strip(window)) >= 20
    /\ ~HasAdWord(window)
    /\ ~HasExcessiveRepetition(window)

\* an entry of the advertising lexicon appears in the window
AdEntryAppears == \E n \in DOMAIN AdKeywords : Contains(window, AdKeywords[n])

\* C24: every window in which an entry of the advertising lexicon appears
\* is rejected by the gate, whatever its keywords, colours and length
C24_AdWindowRejected == Gated /\ AdEntryAppears => Rejected

\* six or more identical characters other than the space stand in direct
\* succession somewhere in the text
HasRunOfSix(text) ==
    \E k \in 1..(Len(text) - 5) :
        text[k] # " " /\ \A j \in k..(k + 5) : text[j] = text[k]

\* five identical characters, or six spaces, stand in direct succession
\* somewhere in the text
HasRunOfFive(text) ==
    \E k \in 1..(Len(text) - 4) : \A j \in k..(k + 4) : text[j] = text[k]

HasSixSpaces(text) ==
    \E k \in 1..(Len(text) - 5) : \A j \in k..(k + 5) : text[j] = " "

\* has_excessive_repetition has been called on the window by itself
RepetitionChecked == parsed.pc = "checked"

\* the gate turns away every window with a run of six, and a window with
\* keywords, without advertising word and long enough is turned away only
\* for such a run
C30_GateOnRuns ==
    /\ Gated /\ HasRunOfSix(window) => Rejected
    /\ Gated /\ parsed.keywords # <<>> /\ ~HasAdWord(window)
         /\ Len(Strip(window)) >= 20 /\ ~HasRunOfSix(window) => Recorded

CanonicalColors ==
    {<<"U+7EA2", "U+6CE2">>, <<"U+7EFF", "U+6CE2">>, <<"U+84DD", "U+6CE2">>}

\* the extractors have returned
Extracted == parsed.pc \in {"extracted", "done"}

\* C22: the colour list the field parser returns has at most 3 elements,
\* no element twice, only the canonical forms 红波, 绿波, 蓝波, and holds
\* every colour that was found: the cap removes none
C22_ColorsCanonical ==
    Extracted =>
        /\ Len(parsed.colors) <= 3
        /\ \A a, b \in DOMAIN parsed.colors :
              a # b => parsed.colors[a] # parsed.colors[b]
        /\ Range(parsed.colors) \subseteq CanonicalColors
        /\ FoundColors(window) \subseteq Range(parsed.colors)
        /\ \A char \in Range(window) \cap ColorChars :
              <<char, "U+6CE2">> \in Range(parsed.colors)

\* all three colours were found in a window and returned
C22_Witness ==
    /\ Extracted
    /\ ColorChars \subseteq Range(window)
    /\ Len(parsed.colors) = 3

\* a markup tag, '<' with a later '>', is left in the text
HasTag(text) ==
    \E a, b \in DOMAIN text : a < b /\ text[a] = "<" /\ text[b] = ">"

\* C26: every result string the field parser keeps is non-empty, holds no
\* markup tag and is at most 10 characters long, and the result field of a
\* record is made of the kept strings only
C26_ResultsShortAndClean ==
    /\ Extracted =>
          \A k \in DOMAIN parsed.results :
              /\ parsed.results[k] # <<>>
              /\ ~HasTag(parsed.results[k])
              /\ Len(parsed.results[k]) <= 10
    /\ Recorded => parsed.all_data[1].results = Join(parsed.results)

\* a record was made from a window in which one match was kept and
\* another, a line of more than 10 characters, was discarded
C26_Witness ==
    /\ Recorded
    /\ parsed.results # <<>>
    /\ \E match \in HitLinesFrom(window, 1) : Len(Clean(match)) > 10

\* a match of more than 10 characters was kept for the 10 or fewer that
\* remained when its tags were stripped
C26_KeptAfterStripping ==
    /\ Extracted
    /\ \E match \in HitLinesFrom(window, 1) :
          /\ Len(match) > 10
          /\ HasTag(match)
          /\ Clean(match) \in Range(parsed.results)

\* C27: the window "...第160期 双波推荐：红波 开：准..." with target issue 160
\* yields a record whose keywords field contains 双波推荐, whose colours
\* field is exactly 红波 and whose result field contains 准
C27_ScenarioRecord ==
    Gated /\ window = ScenarioText =>
        /\ Recorded
        /\ Len(parsed.all_data) = 1
        /\ parsed.all_data[1].period = <<"1", "6", "0", "U+671F">>
        /\ Contains(parsed.all_data[1].keywords, <<"U+53CC", "U+6CE2", "U+63A8", "U+8350">>)
        /\ parsed.all_data[1].colors = <<"U+7EA2", "U+6CE2">>
        /\ \/ Contains(parsed.all_data[1].results, <<"U+51C6">>)
           \/ Contains(parsed.all_data[1].results, <<"U+5F00", "U+FF1A", "U+51C6">>)

\* the gate has accepted the scenario's window
C27_Witness == Recorded /\ window = ScenarioText

\* the h-th of the lines in which the strategy used finds the marker, as a
\* position in the lines it reads
MarkerLine(h) ==
    CHOOSE p \in MarkerLines : Cardinality({q \in MarkerLines : q <= p}) = h

\* the lines from position lo to position hi of the lines read, in order
LinesFromTo(lo, hi) == [j \in 1..(hi - lo + 1) |-> LinesRead[lo + j - 1]]

WindowRadius == IF UsedStrategy = "bs" THEN 3 ELSE 5

\* C31: the window of a marker line at position p of the lines the strategy
\* reads (the non-empty lines for the structure-aware strategy) is exactly
\* the lines p - 3 to p + 3, cut at the first and the last line: it holds
\* the marker line and at most 7 lines; the fallback takes 5 lines on each
\* side of the marker line among all lines
C31_WindowAroundMarkerLine ==
    page.pc = "parsed" =>
        \A h \in DOMAIN contexts :
            LET p == MarkerLine(h)
                lo == IF p - WindowRadius < 1 THEN 1 ELSE p - WindowRadius
                hi == IF p + WindowRadius > Len(LinesRead)
                      THEN Len(LinesRead) ELSE p + WindowRadius
            IN  /\ contexts[h].lines = LinesFromTo(lo, hi)
                /\ LinesRead[p] \in Range(contexts[h].lines)
                /\ Len(contexts[h].lines) <= 2 * WindowRadius + 1
                /\ contexts[h].by = "bs" => Len(contexts[h].lines) <= 7

\* the structure-aware strategy has cut a window of 7 lines that touches
\* neither end of the page's non-empty lines, from a page with a blank line
C31_Witness ==
    /\ page.pc = "parsed"
    /\ \E h \in DOMAIN contexts :
          /\ contexts[h].by = "bs"
          /\ Len(contexts[h].lines) = 7
          /\ contexts[h].lines[1] # LinesRead[1]
          /\ contexts[h].lines[7] # LinesRead[Len(LinesRead)]
          /\ \E k \in DOMAIN page.lines : page.lines[k] = "blank"

\* the fallback has cut a window of 11 lines that touches neither end
C31_FallbackWindow ==
    /\ page.pc = "parsed"
    /\ \E h \in DOMAIN contexts :
          /\ contexts[h].by = "regex"
          /\ Len(contexts[h].lines) = 11
          /\ contexts[h].lines[1] # 1
          /\ contexts[h].lines[11] # Len(page.lines)

\* the phase of batch k: Pending until its slice is handed to
\* process_urls_batch, Dispatched while its URLs are submitted and no result
\* has been taken, Collecting until run() has passed the flush test behind
\* it, Flushed from then on
Phase(k) ==
    IF k > Len(batch_log) THEN "Pending"
    ELSE IF k <= flush_opps THEN "Flushed"
    ELSE IF pc = "collect" /\ yielded = {} THEN "Dispatched"
    ELSE "Collecting"

PhaseSteps ==
    {<<"Pending", "Dispatched">>, <<"Dispatched", "Collecting">>,
     <<"Collecting", "Flushed">>}

\* the batches run() has passed the flush test behind, less the last batch
\* of the list
PausesDue ==
    IF flush_opps > 0 /\ flush_opps = TotalBatches(Len(urls), batch_size)
    THEN flush_opps - 1
    ELSE flush_opps

\* C32: each batch moves through Pending, Dispatched, Collecting, Flushed
\* in this order, a step at a time and never back; batch k + 1 is
\* dispatched only when the flush opportunity of batch k is over; a pause
\* was taken behind every batch but the last
C32_PhasesInOrder ==
    /\ [](/\ Len(batch_log) <= flush_opps + 1
          /\ pauses = PausesDue)
    /\ [][\A k \in 1..(MaxUrls + 1) :
             \/ Phase(k)' = Phase(k)
             \/ <<Phase(k), Phase(k)'>> \in PhaseSteps]_vars

\* a run of three batches has ended normally with two pauses
C32_Witness ==
    /\ pc = "done"
    /\ exit_kind = "normal"
    /\ flush_opps = 3
    /\ pauses = 2

\* C34: in every state of the scheduler processed = succeeded + failed and
\* processed is at most the number of URLs submitted so far; when the run
\* has completed, processed is the number of URLs of the input list
C34_ProcessedAccounting ==
    /\ stats.processed = stats.success + stats.failed
    /\ stats.processed <= Cardinality(DOMAIN fut)
    /\ (pc = "done" /\ exit_kind = "normal") => stats.processed = Len(urls)

\* a run over three URLs has completed with successes and failures
C34_Witness ==
    /\ pc = "done"
    /\ exit_kind = "normal"
    /\ Len(urls) = 3
    /\ stats.success >= 1
    /\ stats.failed >= 1

\* ---- C33

Digits == {"0", "1", "2", "3", "4", "5", "6", "7", "8", "9"}

DigitValue(d) == CHOOSE v \in 0..9 : ToString(v) = d

RECURSIVE ToInt(_)
ToInt(ds) ==
    IF ds = <<>> THEN 0
    ELSE 10 * ToInt(SubSeq(ds, 1, Len(ds) - 1)) + DigitValue(ds[Len(ds)])

\* the digits that (\d{1,3})期 takes at position k: as many as it can, up
\* to three, with 期 right behind them; none when the pattern fails at k
PeriodMatchLen(text, k) ==
    LET fits(n) == /\ k + n <= Len(text)
                   /\ \A j \in k..(k + n - 1) : text[j] \in Digits
                   /\ text[k + n] = "U+671F"
    IN  IF fits(3) THEN 3 ELSE IF fits(2) THEN 2 ELSE IF fits(1) THEN 1
        ELSE 0

\* other_period_pattern.findall(text): the issue numbers the text mentions,
\* from the left, a match starting behind the one before it
RECURSIVE PeriodsFrom(_, _)
PeriodsFrom(text, k) ==
    IF k > Len(text) THEN <<>>
    ELSE LET n == PeriodMatchLen(text, k)
         IN  IF n = 0 THEN PeriodsFrom(text, k + 1)
             ELSE <<ToInt(SubSeq(text, k, k + n - 1))>>
                    \o PeriodsFrom(text, k + n + 1)

\* the issue numbers different from the target issue that the text mentions
OtherPeriods(text) ==
    {PeriodsFrom(text, 1)[p] : p \in DOMAIN PeriodsFrom(text, 1)}
      \ {ToInt(TargetPeriod)}

\* C33: a window that mentions more than one issue number different from
\* the target issue is discarded: no record comes from it.
C33_CrossIssueGuard ==
    Recorded => Cardinality(OtherPeriods(window)) <= 1

\* a record from a window that mentions one other issue exists as well
C33_OneOtherIssueRecorded ==
    Recorded /\ Cardinality(OtherPeriods(window)) = 1

\* ---- C39

\* the line holds the marker as an issue number of its own: no digit stands
\* in front of it
NamesTarget(line) ==
    \E k \in 1..Len(line) :
        /\ MatchesAt(line, k, PeriodMarker)
        /\ (k = 1 \/ line[k - 1] \notin Digits)

NoLineNamesTarget ==
    \A k \in DOMAIN page.lines : ~NamesTarget(page.lines[k])

\* C39: a page none of whose lines names the target issue, whatever longer
\* issue numbers ending with the digits of the target it holds, yields no
\* window and no record labelled with the target issue.
C39_OnlyTargetIssueWindows ==
    (page.pc = "parsed" /\ NoLineNamesTarget)
        => (contexts = <<>> /\ window = <<>> /\ ~Recorded)

\* such a page with a record labelled with the target issue
C39_RecordFromLongerNumber ==
    NoLineNamesTarget /\ Recorded
        /\ parsed.all_data[1].period = PeriodMarker

\* pages that do name the target issue yield windows
C39_TargetPageWindow ==
    page.pc = "parsed" /\ ~NoLineNamesTarget /\ contexts # <<>>

\* ---- C35

Count(seq, x) == Cardinality({k \in DOMAIN seq : seq[k] = x})

SameMultiset(a, b) ==
    \A x \in Range(a) \cup Range(b) : Count(a, x) = Count(b, x)

DataRows == SelectSeq(file_rows, IsData)

Completed == pc = "done" /\ exit_kind = "normal"

\* no flush was left failed: the last call of save_results that found
\* records in the buffer succeeded
FlushedInTheEnd ==
    Attempts # {} => save_log[SetMax(Attempts)].ok

CleanRun == Completed /\ ~existed /\ FlushedInTheEnd

\* C35: when a run that began without output file has completed and its
\* last flush of records succeeded, the data rows of the output file are, as
\* a multiset, the records accepted from the URLs whose tasks succeeded: none
\* is lost and none is written twice, whatever the order of the tasks and
\* whichever earlier flushes failed and were retried.
C35_Conservation ==
    CleanRun => SameMultiset(DataRows, accepted)

\* a completed run with an accepted record that is not in the file
C35_RecordLost ==
    /\ CleanRun
    /\ \E x \in Range(accepted) : Count(DataRows, x) < Count(accepted, x)

\* a completed run with a record that is in the file more often than it
\* was accepted
C35_RecordTwice ==
    /\ CleanRun
    /\ \E x \in Range(DataRows) : Count(DataRows, x) > Count(accepted, x)

\* a completed run of several flushes that kept every record
C35_RunThatConserves ==
    /\ CleanRun
    /\ Len(accepted) >= 2
    /\ \E a \in DOMAIN save_log : ~save_log[a].ok
    /\ SameMultiset(DataRows, accepted)

\* ---- C36

RECURSIVE WrittenUpTo(_)
WrittenUpTo(a) ==
    IF a = 0 THEN <<>> ELSE WrittenUpTo(a - 1) \o save_log[a].written

\* no final or abort-path flush has found records in the buffer
OnlyIncrementalSoFar ==
    \A a \in Attempts : save_log[a].inc

\* the run has completed, with records, on an output file left by an
\* earlier run
SecondRunCompleted == Completed /\ existed /\ accepted # <<>>

\* C36 as stated: at the end of a run that found the output file of an
\* earlier run, the file holds the records of this run only, as after a
\* single run: the earlier run's rows are gone and no row is there twice.
C36_OnlyThisRunsRows ==
    SecondRunCompleted =>
        /\ OldRow \notin Range(file_rows)
        /\ SameMultiset(DataRows, accepted)

\* C36: the output file is not reset when a run begins and incremental
\* flushes only append: on a file left by an earlier run, whatever flushes
\* came before, a call of save_results(incremental=True) leaves the rows
\* of the file in place and puts behind them the records it wrote, with no
\* header; until a final or abort-path flush has written, the file is thus
\* the earlier run's header and rows followed by this run's records.
C36_SecondRunAppends ==
    /\ [][(existed /\ SaveStep /\ Last(save_log').inc)
             => /\ file_exists'
                /\ file_rows' = file_rows \o Last(save_log').written
                /\ Header \notin Range(Last(save_log').written)]_vars
    /\ []((existed /\ OnlyIncrementalSoFar)
             => file_rows = <<Header, OldRow>> \o WrittenUpTo(Len(save_log)))

\* a second run has completed after two successful incremental flushes: the
\* file is the first run's rows followed by this run's records
C36_Witness ==
    /\ SecondRunCompleted
    /\ OnlyIncrementalSoFar
    /\ Len(accepted) >= 2
    /\ Cardinality({a \in Attempts : save_log[a].ok}) >= 2
    /\ file_rows = <<Header, OldRow>> \o accepted

\* ---- C37

TaskCounted == fetch.pc = "task_done" /\ fetch'.pc = "counted"

\* C37: a URL is counted as succeeded exactly when fetch_url_content
\* returned non-empty text, whether or not a record was accepted from the
\* page, and as failed when the fetch failed or returned empty text; the
\* buffer takes records only from tasks counted as succeeded.
C37_SuccessIffText ==
    /\ [](fetch.pc \in {"task_done", "counted"}
            => /\ fetch.task = "success" <=> fetch.ret = "text"
               /\ fetch.task = "failed"
                     <=> fetch.ret \in {"none", "empty", "raised"}
               /\ fetch.task = "failed" => fetch.n = 0)
    /\ [][TaskCounted
            => /\ stats'.processed = stats.processed + 1
               /\ IF fetch.ret = "text"
                  THEN /\ stats'.success = stats.success + 1
                       /\ stats'.failed = stats.failed
                       /\ Len(results') = Len(results) + fetch.n
                  ELSE /\ stats'.success = stats.success
                       /\ stats'.failed = stats.failed + 1
                       /\ results' = results]_vars

\* a page of text without record has been counted as succeeded, after a URL
\* counted as failed, and the buffer is empty
C37_Witness ==
    /\ fetch.pc = "counted"
    /\ fetch.ret = "text"
    /\ fetch.n = 0
    /\ stats = [processed |-> 2, success |-> 1, failed |-> 1]
    /\ results = <<>>

\* an empty text has been counted as failed
C37_EmptyTextFailed ==
    /\ fetch.pc = "counted"
    /\ fetch.ret = "empty"
    /\ stats.failed >= 1

\* ---- C38

\* the run was ended from outside or had no URL list to work on
Interrupted == interrupted_at >= 0

LoadFailed == pc = "done" /\ exit_kind = "aborted" /\ batch_log = <<>>

\* the run has reached its final flush with every batch collected and past
\* its flush opportunity and every URL counted
FullyProcessed ==
    /\ Completed
    /\ batches_done = TotalBatches(Len(urls), batch_size)
    /\ flush_opps = batches_done
    /\ stats.processed = Len(urls)

\* C38: when every fetch returns or times out, a run that has read its URL
\* list and is not interrupted terminates: every batch is eventually
\* collected and passes its flush opportunity, every URL is eventually
\* counted as processed, and the final flush is eventually reached.
C38_RunTerminates ==
    <>(Interrupted \/ LoadFailed \/ FullyProcessed)

\* the run does end in every case, if not as the claim says
C38_RunEnds == <>(pc = "done")

\* a run has ended by the abort path with URLs that were never submitted
C38_EndedWithUrlsLeft ==
    /\ pc = "done"
    /\ exit_kind = "aborted"
    /\ ~Interrupted
    /\ Cardinality(DOMAIN fut) < Len(urls)
    /\ stats.processed < Cardinality(DOMAIN fut)
====
